---- MODULE Spec2Model ----
(***************************************************************************)
(* Model of the pi5-voice-assistant server: the keyword router             *)
(* (pipelines/robot/keyword_router.py), the sentence segmenter             *)
(* (app/engine.py, generate_stream), the LLM lock and the request handlers *)
(* (app/main.py, pipelines/*/pipeline.py), the framing of the streamed     *)
(* response and the conversation history (app/conversation.py).  Each part *)
(* has its own specification; a specification holds the variables of the   *)
(* other parts at their rest values.                                       *)
(*                                                                         *)
(* Representation of text in the router.  A Python str is a sequence of    *)
(* lexemes: a                                                              *)
(* maximal run of word characters (\w+, letters and digits) is one lexeme, *)
(* and every whitespace or punctuation character is a lexeme of its own.   *)
(* The string "avanza 1,5 metros" is                                       *)
(*     <<"avanza", " ", "1", ",", "5", " ", "metros">>.                    *)
(* Every regular expression of the router is written with \b, \s, \w and   *)
(* literal words, so its matches fall on lexeme borders; the few places    *)
(* where a literal may match inside a longer word (a pattern without a     *)
(* closing or opening \b) are modelled by the tables ProperPrefix and      *)
(* ProperSuffix below.                                                     *)
(*                                                                         *)
(* Representation of numbers.  Distances and angles are Python floats or   *)
(* ints with at most one decimal digit; they are kept in tenths (0.5 is 5, *)
(* 1 is 10, 90 is 900).                                                    *)
(***************************************************************************)
EXTENDS Integers, Sequences, FiniteSets, TLC

VARIABLES
    text,      \* the argument of route_command: a sequence of lexemes
    pc,        \* "call" before route_command ran, "return" / "raise" after
    result,    \* the value route_command returned (None or a RouterResult)
    \* generate_stream (app/engine.py)
    stream,          \* the characters the LLM will produce, in order
    fed,             \* how many of them the chunks consumed so far carried
    buffer,          \* the local buffer
    in_think_block,  \* the local in_think_block
    yielded,         \* the sentences yielded so far, in order
    gpc,             \* "open" before the first chunk, "loop", "done"
    \* the requests and the LLM lock (app/main.py, pipelines/*/pipeline.py)
    endpoint,        \* the endpoint each request called, "none" before
    rpc,             \* where each request's handler stands
    locked,          \* llm_lock._locked
    waiters,         \* llm_lock._waiters: the requests waiting, in order
    woken,           \* the waiters whose future is done (set_result)
    \* audio_chunk_generator of /assistant/chat/stream
    results,         \* the WAV payloads generate_chunks returned, in order
    sent,            \* the bytes yielded to the client so far
    spc,             \* "lock", "frames", "saved"
    \* ConversationManager (app/conversation.py)
    max_turns,       \* self.max_turns
    history,         \* self.history, oldest message first
    added,           \* every exchange add_exchange was called with, in order
    disk,            \* the list saved under self.name in the history file
    \* the requests of one project with its history
    messages,        \* the message list get_messages built for each request
    held,            \* the requests whose generation held the lock, in order
    \* two managers and the history file they share
    histories,       \* self.history of each manager
    file,            \* the history file: the list saved under each name
    tpc,             \* where the call running on each manager stands
    existing,        \* the local `existing` of that call's _save_to_disk
    ncalls,          \* how many calls were made so far
    \* the LLM fallback of /robot/command
    response_text,   \* what engine.generate returned: a sequence of lexemes
    sent_json,       \* the content of the JSONResponse returned
    fpc              \* "llm" when generate has returned, "return" / "raise"

routerVars == <<text, pc, result>>

segVars == <<stream, fed, buffer, in_think_block, yielded, gpc>>

serverVars == <<endpoint, rpc, locked, waiters, woken>>

frameVars == <<results, sent, spc>>

convVars == <<max_turns, history, added, disk>>

exchVars == <<messages, held>>

persistVars == <<histories, file, tpc, existing, ncalls>>

fallbackVars == <<response_text, sent_json, fpc>>

vars == <<routerVars, segVars, serverVars, frameVars, convVars, exchVars,
          persistVars, fallbackVars>>

(***************************************************************************)
(* Lexical classes (Python's re: \s, \w, \d, \b)                           *)
(***************************************************************************)
Space == " "

Punct == {",", ".", "'", "?", "¿"}

IsSpace(x) == x = Space

\* \w+ : a lexeme that is neither whitespace nor punctuation
IsWord(x) == x # Space /\ x \notin Punct

\* \d+ lexemes of the model and int() of each
IntVal == [x \in {"1", "3", "5", "20", "45", "180", "360"} |->
             CASE x = "1" -> 1 [] x = "3" -> 3 [] x = "5" -> 5 [] x = "20" -> 20
               [] x = "45" -> 45 [] x = "180" -> 180 [] x = "360" -> 360]

IsDigits(x) == x \in DOMAIN IntVal

\* the value, in tenths, of the fraction "0.<x>" for a digit lexeme x
FracTenths == [x \in {"1", "3", "5", "20"} |->
             CASE x = "1" -> 1 [] x = "3" -> 3 [] x = "5" -> 5 [] x = "20" -> 2]

\* str.lower() on a lexeme (the capitalised lexemes of the model)
Lower(x) == CASE x = "Para" -> "para"
              [] x = "Avanza" -> "avanza"
              [] x = "Y" -> "y"
              [] x = "Francia" -> "francia"
              [] OTHER -> x

LowerSeq(s) == [i \in 1..Len(s) |-> Lower(s[i])]

\* words of the model that properly extend another word of a pattern:
\* <<p, w>> means w starts with p (resp. ends with p) and is longer
ProperPrefix == {<<"levanta", "levantar">>, <<"gira", "girar">>}

ProperSuffix == {<<"arriba", "parriba">>}

StartsWith(w, p) == w = p \/ <<p, w>> \in ProperPrefix

EndsWith(w, p) == w = p \/ <<p, w>> \in ProperSuffix

\* \b before lexeme i / after lexeme j of s, both word lexemes
BoundaryBefore(s, i) == i = 1 \/ ~IsWord(s[i - 1])

BoundaryAfter(s, j) == j = Len(s) \/ ~IsWord(s[j + 1])

\* the literal phrase p occurs in s at lexeme i
PhraseAt(s, i, p) ==
    /\ i >= 1
    /\ i + Len(p) - 1 <= Len(s)
    /\ \A k \in 1..Len(p) : s[i + k - 1] = p[k]

\* the number of whitespace lexemes of s from position i on (\s* greedy)
RECURSIVE SpaceRun(_, _)
SpaceRun(s, i) ==
    IF i <= Len(s) /\ IsSpace(s[i]) THEN 1 + SpaceRun(s, i + 1) ELSE 0

\* str.strip()
RECURSIVE LStrip(_)
LStrip(s) == IF s # <<>> /\ IsSpace(Head(s)) THEN LStrip(Tail(s)) ELSE s

RECURSIVE RStrip(_)
RStrip(s) ==
    IF s # <<>> /\ IsSpace(s[Len(s)]) THEN RStrip(SubSeq(s, 1, Len(s) - 1)) ELSE s

Strip(s) == RStrip(LStrip(s))

(***************************************************************************)
(* Number extraction: WORD_NUMBERS, DIGIT_NUMBER, METERS_PATTERN,          *)
(* DEGREES_PATTERN, _extract_number                                        *)
(***************************************************************************)
W(a) == <<a>>

Ph2(a, b) == <<a, Space, b>>

Ph3(a, b, c) == <<a, Space, b, Space, c>>

\* the value of a number in tenths
Tenths(n) == 10 * n

\* WORD_NUMBERS: the keys as lexeme sequences, the values in tenths
WORD_NUMBERS ==
    { <<W("cero"), 0>>, <<W("medio"), 5>>, <<W("media"), 5>>,
      <<W("un"), 10>>, <<W("uno"), 10>>, <<W("una"), 10>>,
      <<W("dos"), 20>>, <<W("tres"), 30>>, <<W("cuatro"), 40>>, <<W("cinco"), 50>>,
      <<W("seis"), 60>>, <<W("siete"), 70>>, <<W("ocho"), 80>>, <<W("nueve"), 90>>,
      <<W("diez"), 100>>, <<W("quince"), 150>>, <<W("veinte"), 200>>,
      <<W("veinticinco"), 250>>, <<W("treinta"), 300>>, <<W("cuarenta"), 400>>,
      <<Ph3("cuarenta", "y", "cinco"), 450>>, <<W("cincuenta"), 500>>,
      <<W("sesenta"), 600>>, <<W("noventa"), 900>>, <<W("cien"), 1000>>,
      <<W("ciento"), 1000>>, <<Ph2("ciento", "ochenta"), 1800>>,
      <<Ph2("ciento", "veinte"), 1200>>, <<Ph2("trescientos", "sesenta"), 3600>>,
      <<W("trescientos"), 3000>> }

WordNumberKeys == {e[1] : e \in WORD_NUMBERS}

WordNumberValue(k) == (CHOOSE e \in WORD_NUMBERS : e[1] = k)[2]

\* the outcomes of _extract_number: a float, None, or an exception of float()
Number(v) == [kind |-> "number", value |-> v]

NoNumber == [kind |-> "none", value |-> 0]

ValueError == [kind |-> "raise", value |-> 0]

\* DIGIT_NUMBER = \b(\d+(?:[.,]\d+)?)\b : the lexemes of group(1) of the match
\* that starts at lexeme i of s, <<>> when there is none
DigitMatchAt(s, i) ==
    IF IsDigits(s[i]) /\ BoundaryBefore(s, i)
    THEN IF /\ i + 2 <= Len(s)
            /\ s[i + 1] \in {".", ","}
            /\ IsDigits(s[i + 2])
            /\ BoundaryAfter(s, i + 2)
         THEN SubSeq(s, i, i + 2)
         ELSE IF BoundaryAfter(s, i) THEN SubSeq(s, i, i) ELSE <<>>
    ELSE <<>>

\* DIGIT_NUMBER.search(s).group(1): the leftmost match, <<>> when none
DigitNumberSearch(s) ==
    LET starts == {i \in 1..Len(s) : DigitMatchAt(s, i) # <<>>}
    IN  IF starts = {} THEN <<>>
        ELSE DigitMatchAt(s, CHOOSE i \in starts : \A k \in starts : i <= k)

\* str.replace(",", ".")
ReplaceComma(d) == [i \in 1..Len(d) |-> IF d[i] = "," THEN "." ELSE d[i]]

\* float() of the lexemes of a digit literal, in tenths
PyFloat(d) ==
    IF Len(d) = 1 /\ IsDigits(d[1]) THEN Number(Tenths(IntVal[d[1]]))
    ELSE IF /\ Len(d) = 3 /\ IsDigits(d[1]) /\ d[2] = "."
            /\ d[3] \in DOMAIN FracTenths
         THEN Number(Tenths(IntVal[d[1]]) + FracTenths[d[3]])
         ELSE ValueError

\* METERS_PATTERN = (\w[\w\s]*?)\s*metros? and DEGREES_PATTERN likewise:
\* the unit literal has no \b, it matches at the head of any word it starts
METERS_PATTERN == {"metro", "metros"}

DEGREES_PATTERN == {"grado", "grados"}

IsUnit(x, unit) == \E u \in unit : StartsWith(x, u)

\* the pattern matches from word lexeme i when only word and whitespace
\* lexemes lie between i and a later unit lexeme j
UnitMatch(s, unit, i, j) ==
    /\ i < j
    /\ IsWord(s[i])
    /\ IsUnit(Lower(s[j]), unit)
    /\ \A m \in i..(j - 1) : IsWord(s[m]) \/ IsSpace(s[m])

\* pattern.search(text).group(1): the leftmost start, and from it the lazy
\* group stops before the first unit lexeme it can reach, leaving the
\* whitespace before the unit to \s*; <<>> when no match
UnitGroup(s, unit) ==
    LET starts == {i \in 1..Len(s) : \E j \in 1..Len(s) : UnitMatch(s, unit, i, j)}
    IN  IF starts = {} THEN <<>>
        ELSE LET i == CHOOSE a \in starts : \A b \in starts : a <= b
                 ends == {j \in 1..Len(s) : UnitMatch(s, unit, i, j)}
                 j == CHOOSE a \in ends : \A b \in ends : a <= b
             IN  RStrip(SubSeq(s, i, j - 1))

\* _extract_number(text, pattern)
ExtractNumber(s, unit) ==
    LET group == UnitGroup(s, unit)
        number_str == LowerSeq(Strip(group))
        digit_match == DigitNumberSearch(number_str)
    IN  IF group = <<>> THEN NoNumber
        ELSE IF number_str \in WordNumberKeys THEN Number(WordNumberValue(number_str))
        ELSE IF digit_match # <<>> THEN PyFloat(ReplaceComma(digit_match))
        ELSE NoNumber

(***************************************************************************)
(* Pattern search: the three shapes of regular expression of the router    *)
(***************************************************************************)
\* \b(p1|p2|...)\b .search(s): some phrase of alts between word boundaries
SearchWords(s, alts) ==
    \E i \in 1..Len(s) : \E p \in alts :
        /\ PhraseAt(s, i, p)
        /\ BoundaryBefore(s, i)
        /\ BoundaryAfter(s, i + Len(p) - 1)

\* the phrase p occurs at lexeme i of s, its last word possibly continuing
\* (no \b closes it)
PrefixAt(s, i, p) ==
    /\ i >= 1
    /\ i + Len(p) - 1 <= Len(s)
    /\ \A k \in 1..(Len(p) - 1) : s[i + k - 1] = p[k]
    /\ StartsWith(s[i + Len(p) - 1], p[Len(p)])

\* \b(h1.*t1|h2.*t2|...)\b .search(s), spans the set of <<head phrase, tail
\* word>>: a head after a word boundary, and later a word that ends in the
\* tail (no \b opens the tail)
SearchSpan(s, spans) ==
    \E sp \in spans : \E i \in 1..Len(s) :
        /\ PrefixAt(s, i, sp[1])
        /\ BoundaryBefore(s, i)
        /\ \E j \in (i + Len(sp[1]))..Len(s) :
              /\ EndsWith(s[j], sp[2])
              /\ BoundaryAfter(s, j)

PatternSearch(pattern, s) ==
    IF pattern.shape = "words"
    THEN SearchWords(s, pattern.alts)
    ELSE SearchSpan(s, pattern.alts)

Words(alts) == [shape |-> "words", alts |-> alts]

Span(heads, tail) == [shape |-> "span", alts |-> {<<h, tail>> : h \in heads}]

Spans(pairs) == [shape |-> "span", alts |-> pairs]

\* Pattern for special angle phrases
FULL_TURN == Words({Ph2("vuelta", "completa"), Ph2("giro", "completo"), W("360")})

HALF_TURN == Words({Ph2("media", "vuelta")})

QUARTER_TURN == Words({Ph3("cuarto", "de", "vuelta")})

(***************************************************************************)
(* COMMAND_PATTERNS: (regex_pattern, action_type, default_params,          *)
(* confirmation), in table order                                           *)
(***************************************************************************)
NoParams == <<>>

Rule(pattern, action, params, confirmation) ==
    [pattern |-> pattern, action |-> action, params |-> params,
     confirmation |-> confirmation]

TurnVerbs ==
    {W("gira"), W("tuerce"), W("rota"), W("dobla"), W("voltea"),
     Ph3("da", "la", "vuelta"), Ph3("date", "la", "vuelta")}

COMMAND_PATTERNS == <<
    Rule(Words({W("para"), W("stop"), W("detente"), W("quieto"), W("frena"),
                W("basta"), W("alto"), Ph3("no", "te", "muevas")}),
         "stop", NoParams, "Detenido"),
    Rule(Words({W("duerme"), W("duérmete"), Ph2("a", "dormir"), W("descansa"),
                W("reposo"), Ph2("modo", "reposo"), W("relájate")}),
         "sleep", NoParams, "Entrando en reposo"),
    Rule(Words({W("despierta"), W("arriba"), W("actívate"), W("espabila"),
                W("levanta"), W("vamos")}),
         "wake", NoParams, "Despertando"),
    Rule(Words({W("baila"), W("bailar"), W("menéate"),
                Ph3("mueve", "el", "esqueleto")}),
         "dance", NoParams, "¡A bailar!"),
    Rule(Words({W("avanza"), W("adelante"), Ph2("hacia", "adelante"), W("camina"),
                W("muévete"), W("ve"), W("anda"), W("sigue"),
                W("palante"), <<"pa", "'", "lante">>}),
         "move", [direction |-> "forward", distance |-> Tenths(1)], "Avanzando"),
    Rule(Words({W("retrocede"), W("atrás"), Ph2("hacia", "atrás"),
                Ph2("marcha", "atrás"), W("patrás"), <<"pa", "'", "trás">>,
                W("recular")}),
         "move", [direction |-> "backward", distance |-> Tenths(1)], "Retrocediendo"),
    Rule(Span(TurnVerbs, "izquierda"),
         "turn", [direction |-> "left", angle |-> Tenths(90)], "Girando a la izquierda"),
    Rule(Words({W("izquierda")}),
         "turn", [direction |-> "left", angle |-> Tenths(90)], "Girando a la izquierda"),
    Rule(Span(TurnVerbs, "derecha"),
         "turn", [direction |-> "right", angle |-> Tenths(90)], "Girando a la derecha"),
    Rule(Words({W("derecha")}),
         "turn", [direction |-> "right", angle |-> Tenths(90)], "Girando a la derecha"),
    Rule(Words(TurnVerbs),
         "turn", [direction |-> "right", angle |-> Tenths(90)], "Girando"),
    Rule(Words({W("agarra"), W("coge"), W("sujeta"), W("toma")}),
         "grab", NoParams, "Agarrando"),
    Rule(Words({W("suelta"), W("libera"), W("deja"), W("soltar")}),
         "release", NoParams, "Soltando"),
    Rule(Spans({<<W("mira"), "arriba">>, <<W("levanta"), "cabeza">>}),
         "look_up", [angle |-> Tenths(30)], "Mirando arriba"),
    Rule(Spans({<<W("mira"), "abajo">>, <<W("baja"), "cabeza">>}),
         "look_down", [angle |-> Tenths(30)], "Mirando abajo") >>

(***************************************************************************)
(* ActionResult, RouterResult, _match_single                               *)
(***************************************************************************)
\* Python's None, and an exception leaving the function
None == [none |-> TRUE]

Raised == [raised |-> "ValueError"]

ActionResult(action, params, confirmation) ==
    [action |-> action, params |-> params, confirmation |-> confirmation]

RouterResult(matched, actions) == [matched |-> matched, actions |-> actions]

\* params with params[key] = value when number is a float, params unchanged
\* when it is None
SetParam(rule, key, number) ==
    IF number.kind = "raise" THEN Raised
    ELSE ActionResult(rule.action,
                      IF number.kind = "number"
                      THEN [rule.params EXCEPT ![key] = number.value]
                      ELSE rule.params,
                      rule.confirmation)

\* the body of the loop of _match_single for the rule that matched
Refine(rule, text_clean) ==
    IF rule.action = "move"
    THEN SetParam(rule, "distance", ExtractNumber(text_clean, METERS_PATTERN))
    ELSE IF rule.action = "turn"
    THEN IF PatternSearch(FULL_TURN, text_clean)
         THEN SetParam(rule, "angle", Number(Tenths(360)))
         ELSE IF PatternSearch(HALF_TURN, text_clean)
         THEN SetParam(rule, "angle", Number(Tenths(180)))
         ELSE IF PatternSearch(QUARTER_TURN, text_clean)
         THEN SetParam(rule, "angle", Number(Tenths(90)))
         ELSE SetParam(rule, "angle", ExtractNumber(text_clean, DEGREES_PATTERN))
    ELSE IF rule.action \in {"look_up", "look_down"}
    THEN SetParam(rule, "angle", ExtractNumber(text_clean, DEGREES_PATTERN))
    ELSE ActionResult(rule.action, rule.params, rule.confirmation)

\* the loop taken from the end of the table: the last rule that matches
RECURSIVE MatchFromLast(_, _, _)
MatchFromLast(text_clean, k, n) ==
    IF k > n THEN None
    ELSE IF PatternSearch(COMMAND_PATTERNS[n].pattern, text_clean)
    THEN Refine(COMMAND_PATTERNS[n], text_clean)
    ELSE MatchFromLast(text_clean, k, n - 1)

\* for pattern, ... in COMMAND_PATTERNS[k..n]: the first rule that matches
RECURSIVE MatchFrom(_, _, _)
MatchFrom(text_clean, k, n) ==
    IF k > n THEN None
    ELSE IF PatternSearch(COMMAND_PATTERNS[k].pattern, text_clean)
    THEN Refine(COMMAND_PATTERNS[k], text_clean)
    ELSE MatchFrom(text_clean, k + 1, n)

\* _match_single with the loop starting after the stop rule
_match_single_nostop(part) ==
    LET text_clean == LowerSeq(Strip(part))
    IN  IF text_clean = <<>> THEN None
        ELSE MatchFrom(text_clean, 2, Len(COMMAND_PATTERNS))

\* _match_single with the loop ending one rule early
_match_single_short(part) ==
    LET text_clean == LowerSeq(Strip(part))
    IN  IF text_clean = <<>> THEN None
        ELSE MatchFrom(text_clean, 1, Len(COMMAND_PATTERNS) - 1)

_match_single(part) ==
    LET text_clean == LowerSeq(Strip(part))
    IN  IF text_clean = <<>> THEN None
        ELSE MatchFrom(text_clean, 1, Len(COMMAND_PATTERNS))

(***************************************************************************)
(* route_command: filler removal, COMPOUND_SPLITTER, matching              *)
(***************************************************************************)
FillerWords == {"oye", "eh", "hey", "robot", "porfa", "venga", "puedes"}

\* the length in lexemes of the match of
\* \b(oye|eh|hey|robot|por favor|porfa|venga|¿puedes\??|puedes)\b
\* that starts at lexeme i of s, 0 when there is none
FillerLenAt(s, i) ==
    IF /\ Lower(s[i]) \in FillerWords
       /\ BoundaryBefore(s, i) /\ BoundaryAfter(s, i)
    THEN 1
    ELSE IF /\ PhraseAt(LowerSeq(s), i, Ph2("por", "favor"))
            /\ BoundaryBefore(s, i) /\ BoundaryAfter(s, i + 2)
    THEN 3
    ELSE IF /\ s[i] = "¿"
            /\ i > 1 /\ IsWord(s[i - 1])
            /\ i + 1 <= Len(s) /\ Lower(s[i + 1]) = "puedes"
    THEN IF /\ i + 3 <= Len(s) /\ s[i + 2] = "?" /\ IsWord(s[i + 3])
         THEN 3
         ELSE 2
    ELSE 0

\* re.sub(filler, "", text): the matches removed left to right
RECURSIVE RemoveFillers(_, _)
RemoveFillers(s, i) ==
    IF i > Len(s) THEN <<>>
    ELSE IF FillerLenAt(s, i) > 0 THEN RemoveFillers(s, i + FillerLenAt(s, i))
    ELSE <<s[i]>> \o RemoveFillers(s, i + 1)

ThenWords == {"luego", "después"}

\* (?:luego\s+|después\s+)? at lexeme q: the lexemes it takes
ThenLen(s, q) ==
    IF /\ q + 1 <= Len(s)
       /\ Lower(s[q]) \in ThenWords
       /\ IsSpace(s[q + 1])
    THEN 1 + SpaceRun(s, q + 1)
    ELSE 0

\* y\s+(?:...)? | ,\s*(?:...)? | luego\s+ | después\s+ at lexeme p: the
\* lexemes the alternative takes, 0 when none matches
ConnectorLen(s, p) ==
    IF p > Len(s) THEN 0
    ELSE IF Lower(s[p]) = "y" /\ p + 1 <= Len(s) /\ IsSpace(s[p + 1])
    THEN 1 + SpaceRun(s, p + 1) + ThenLen(s, p + 1 + SpaceRun(s, p + 1))
    ELSE IF s[p] = ","
    THEN 1 + SpaceRun(s, p + 1) + ThenLen(s, p + 1 + SpaceRun(s, p + 1))
    ELSE ThenLen(s, p)

\* COMPOUND_SPLITTER = \s+(?:connector) at lexeme i: the lexemes the match
\* takes, 0 when there is none
SplitterLenAt(s, i) ==
    IF IsSpace(s[i]) /\ ConnectorLen(s, i + SpaceRun(s, i)) > 0
    THEN SpaceRun(s, i) + ConnectorLen(s, i + SpaceRun(s, i))
    ELSE 0

\* COMPOUND_SPLITTER.split(s) from lexeme i on, cur the piece being read
RECURSIVE SplitFrom(_, _, _)
SplitFrom(s, i, cur) ==
    IF i > Len(s) THEN <<cur>>
    ELSE IF SplitterLenAt(s, i) > 0
    THEN <<cur>> \o SplitFrom(s, i + SplitterLenAt(s, i), <<>>)
    ELSE SplitFrom(s, i + 1, Append(cur, s[i]))

\* [p.strip() for p in parts if p.strip()]
RECURSIVE StripParts(_)
StripParts(parts) ==
    IF parts = <<>> THEN <<>>
    ELSE IF Strip(Head(parts)) = <<>> THEN StripParts(Tail(parts))
    ELSE <<Strip(Head(parts))>> \o StripParts(Tail(parts))

\* text_clean of route_command
TextClean(t) == Strip(RemoveFillers(t, 1))

\* parts of route_command
Parts(text_clean) == StripParts(SplitFrom(text_clean, 1, <<>>))

\* the loop over the parts with "continue" in place of "return None"
RECURSIVE MatchPartsPartial(_, _)
MatchPartsPartial(parts, actions) ==
    IF parts = <<>> THEN RouterResult(TRUE, actions)
    ELSE LET r == _match_single(Head(parts))
         IN  IF r = None THEN MatchPartsPartial(Tail(parts), actions)
             ELSE IF r = Raised THEN Raised
             ELSE MatchPartsPartial(Tail(parts), Append(actions, r))

\* the loop over the parts of a compound command
RECURSIVE MatchParts(_, _)
MatchParts(parts, actions) ==
    IF parts = <<>> THEN RouterResult(TRUE, actions)
    ELSE LET r == _match_single(Head(parts))
         IN  IF r = None THEN None
             ELSE IF r = Raised THEN Raised
             ELSE MatchParts(Tail(parts), Append(actions, r))

route_command(t) ==
    LET text_clean == TextClean(t)
        parts == Parts(text_clean)
        r == _match_single(text_clean)
    IN  IF text_clean = <<>> THEN None
        ELSE IF Len(parts) > 1 THEN MatchParts(parts, <<>>)
        ELSE IF r = Raised THEN Raised
        ELSE IF r # None THEN RouterResult(TRUE, <<r>>)
        ELSE None

(***************************************************************************)
(* The utterances route_command is called with                             *)
(***************************************************************************)
\* the longest generated utterance, in atoms
MaxAtoms == 2

\* words and short phrases utterances are built of
Atoms ==
    { <<>>, W("avanza"), W("para"), W("canta"), W("robot"), W("ve"),
      Ph2("hacia", "atrás"), Ph2("dos", "metros"),
      <<"1", ",", "5", Space, "metros">>, W("gira"), Ph3("a", "la", "derecha"),
      Ph2("mira", "arriba"), Ph2("20", "grados") }

\* what stands between two atoms: a blank, " y ", ", ", " , ", " luego "
Joiners ==
    { <<Space>>, <<Space, "y", Space>>, <<",", Space>>, <<Space, ",", Space>>,
      <<Space, "luego", Space>> }

RECURSIVE Utterances(_)
Utterances(n) ==
    IF n <= 1 THEN Atoms
    ELSE Utterances(n - 1) \cup
         {u \o j \o a : u \in Utterances(n - 1), j \in Joiners, a \in Atoms}

\* the utterances of the test suite and of the specification's examples, and
\* a few more that exercise the rules the atoms do not reach
Examples ==
    { <<>>,
      <<" ">>,
      <<"oye", " ", "robot">>,
      <<"por", " ", "favor">>,
      <<"Para">>,
      <<"oye", " ", "robot", " ", "para">>,
      <<"por", " ", "favor", " ", "detente">>,
      <<"no", " ", "te", " ", "muevas">>,
      <<"avanza", " ", "dos", " ", "metros">>,
      <<"avanza", " ", "3", " ", "metros">>,
      <<"avanza", " ", "medio", " ", "metro">>,
      <<"ve", " ", "hacia", " ", "adelante">>,
      <<"retrocede", " ", "medio", " ", "metro">>,
      <<"marcha", " ", "atrás">>,
      <<"ve", " ", "hacia", " ", "atrás">>,
      <<"gira", " ", "a", " ", "la", " ", "izquierda">>,
      <<"gira", " ", "45", " ", "grados", " ", "a", " ", "la", " ", "derecha">>,
      <<"gira", " ", "180", " ", "grados">>,
      <<"da", " ", "la", " ", "vuelta">>,
      <<"da", " ", "una", " ", "vuelta", " ", "completa">>,
      <<"da", " ", "media", " ", "vuelta">>,
      <<"girar", " ", "a", " ", "la", " ", "izquierda">>,
      <<"duérmete">>,
      <<"a", " ", "dormir">>,
      <<"despierta">>,
      <<"ponte", " ", "a", " ", "bailar">>,
      <<"avanza", " ", "dos", " ", "metros", " ", "y", " ", "gira", " ", "a", " ", "la", " ", "derecha">>,
      <<"avanza", " ", "un", " ", "metro", " ", "y", " ", "luego", " ", "gira", " ", "a", " ", "la", " ", "izquierda">>,
      <<"retrocede", " ", "medio", " ", "metro", " ", "y", " ", "baila">>,
      <<"gira", " ", "a", " ", "la", " ", "derecha", " ", "y", " ", "avanza", " ", "tres", " ", "metros">>,
      <<"avanza", ",", " ", "gira", " ", "a", " ", "la", " ", "derecha", " ", "y", " ", "avanza", " ", "otra", " ", "vez">>,
      <<"oye", " ", "robot", " ", "por", " ", "favor", " ", "avanza", " ", "dos", " ", "metros">>,
      <<"venga", " ", "anda", " ", "para", " ", "delante">>,
      <<"canta", " ", "una", " ", "canción">>,
      <<"cuál", " ", "es", " ", "la", " ", "capital", " ", "de", " ", "Francia">>,
      <<"avanza", " ", "y", " ", "canta", " ", "una", " ", "canción">>,
      <<"avanza", " ", "1", ".", "5", " ", "metros">>,
      <<"avanza", " ", "1", ",", "5", " ", "metros">>,
      <<"levanta", " ", "la", " ", "cabeza">>,
      <<"levantar", " ", "la", " ", "cabeza">>,
      <<"mira", " ", "hacia", " ", "arriba">>,
      <<"mira", " ", "abajo", " ", "20", " ", "grados">>,
      <<"baja", " ", "la", " ", "cabeza">>,
      <<"agarra">>,
      <<"suelta">>,
      <<"gira", " ", "cuarenta", " ", "y", " ", "cinco", " ", "grados">>,
      <<"mira", " ", "parriba">>,
      <<"avanza", " ", "y", " ", "después", " ", "para">>,
      <<"gira", " ", "veinte", " ", "grados">>,
      <<"veinte", " ", "grados", " ", "a", " ", "la", " ", "izquierda">>,
      <<"gira", " ", "360", " ", "grados">>,
      <<"da", " ", "la", " ", "vuelta", " ", "completa">>,
      <<"gira", " ", "media", " ", "vuelta", " ", "45", " ", "grados">>,
      <<"gira", " ", "media", " ", "vuelta", " ", "completa">>,
      <<"gira", " ", "un", " ", "cuarto", " ", "de", " ", "vuelta", " ", "45", " ", "grados">>,
      <<"izquierda", " ", "derecha">>,
      <<"para", " ", "y", " ", "canta">>,
      <<"canta", " ", "para">>,
      <<"avanza", " ", "Y", " ", "gira">> }

Inputs == Utterances(MaxAtoms) \cup Examples

(***************************************************************************)
(* The state machine: one call of route_command on one utterance           *)
(***************************************************************************)
\* no generate_stream is running
SegmenterOff ==
    /\ stream = <<>>
    /\ fed = 0
    /\ buffer = <<>>
    /\ in_think_block = FALSE
    /\ yielded = <<>>
    /\ gpc = "off"

\* no request has arrived and the lock is free
ServerOff ==
    /\ endpoint = <<>>
    /\ rpc = <<>>
    /\ locked = FALSE
    /\ waiters = <<>>
    /\ woken = {}

\* no response is being streamed
FramesOff ==
    /\ results = <<>>
    /\ sent = <<>>
    /\ spc = "off"

\* no ConversationManager is looked at
ConversationOff ==
    /\ max_turns = 0
    /\ history = <<>>
    /\ added = <<>>
    /\ disk = <<>>

\* no request's message list is followed
ExchangeOff ==
    /\ messages = <<>>
    /\ held = <<>>

\* no call runs on a manager and the history file is empty
PersistOff ==
    /\ histories = <<>>
    /\ file = <<>>
    /\ tpc = <<>>
    /\ existing = <<>>
    /\ ncalls = 0

\* no LLM fallback is followed
FallbackOff ==
    /\ response_text = <<>>
    /\ sent_json = <<>>
    /\ fpc = "off"

\* the three parts above at rest
RestOff == ExchangeOff /\ PersistOff /\ FallbackOff

\* route_command is not running
RouterOff ==
    /\ text = <<>>
    /\ pc = "off"
    /\ result = None

RouterInit ==
    /\ text \in Inputs
    /\ pc = "call"
    /\ result = None
    /\ SegmenterOff
    /\ ServerOff
    /\ FramesOff
    /\ ConversationOff
    /\ RestOff

\* route_command(text) runs to its return or to an exception
RouteCommand ==
    /\ pc = "call"
    /\ result' = route_command(text)
    /\ pc' = IF route_command(text) = Raised THEN "raise" ELSE "return"
    /\ UNCHANGED <<text, segVars, serverVars, frameVars, convVars, exchVars,
                   persistVars, fallbackVars>>

RouterNext == RouteCommand

RouterSpec == RouterInit /\ [][RouterNext]_vars

(***************************************************************************)
(* Properties of the router                                                *)
(***************************************************************************)
\* route_command has run
Returned == pc # "call"

\* the segments route_command works on for the utterance of this state
Segments == Parts(TextClean(text))

\* the lower-cased utterance
Utterance == LowerSeq(text)

\* no rule of the pattern table has its trigger in the segment
NoRuleMatches(seg) ==
    \A k \in 1..Len(COMMAND_PATTERNS) :
        ~PatternSearch(COMMAND_PATTERNS[k].pattern, LowerSeq(seg))

\* the result is exactly one action of the given kind
OneAction(kind) ==
    /\ pc = "return"
    /\ result # None
    /\ Len(result.actions) = 1
    /\ result.actions[1].action = kind

StopKeywords ==
    {W("para"), W("stop"), W("detente"), W("quieto"), W("frena"), W("basta"),
     W("alto"), Ph3("no", "te", "muevas")}

MovementKeywords ==
    COMMAND_PATTERNS[5].pattern.alts \cup COMMAND_PATTERNS[6].pattern.alts

ContainsStop == SearchWords(Utterance, StopKeywords)

ContainsMovement == SearchWords(Utterance, MovementKeywords)

\* C1: an utterance that contains both a stop keyword and a movement keyword,
\* in any order and with any connecting words, resolves to exactly one
\* action, of kind stop.
C1_StopAlone ==
    Returned /\ ContainsStop /\ ContainsMovement => OneAction("stop")

\* C2: when the utterance splits into two or more segments and at least one
\* segment matches no rule, route_command returns None, never the actions of
\* the segments that did match.
C2_AllOrNothing ==
    ( /\ Returned
      /\ Len(Segments) >= 2
      /\ \E i \in 1..Len(Segments) : NoRuleMatches(Segments[i]) )
    => pc = "return" /\ result = None

\* a compound utterance with a segment that matches a rule and a segment
\* that matches none has been routed to None
C2_Witness ==
    /\ pc = "return"
    /\ Len(Segments) >= 2
    /\ \E i \in 1..Len(Segments) : NoRuleMatches(Segments[i])
    /\ \E i \in 1..Len(Segments) : ~NoRuleMatches(Segments[i])
    /\ result = None

\* the lexeme i of t is whitespace or belongs to a filler word
IsFiller(t, i) ==
    \/ IsSpace(t[i])
    \/ Lower(t[i]) \in FillerWords
    \/ PhraseAt(LowerSeq(t), i, Ph2("por", "favor"))
    \/ PhraseAt(LowerSeq(t), i - 2, Ph2("por", "favor"))

\* empty, whitespace-only or filler-only input
FillerOnly(t) == \A i \in 1..Len(t) : IsFiller(t, i)

\* C3: route_command never raises; it returns None for empty, whitespace-only
\* and filler-only input; for an utterance with a single segment it returns
\* None exactly when no rule has its trigger in the segment; a returned
\* result has at least one action.
C3_NoneIffNoRule ==
    Returned =>
        /\ pc = "return"
        /\ FillerOnly(text) => result = None
        /\ Len(Segments) = 1 => (result = None <=> NoRuleMatches(Segments[1]))
        /\ result # None => Len(result.actions) >= 1

\* a filler word was removed, the single segment that is left matches no
\* rule, and route_command returned None
C3_Witness ==
    /\ pc = "return"
    /\ \E i \in 1..Len(text) : Lower(text[i]) \in FillerWords
    /\ Len(Segments) = 1
    /\ \E i \in 1..Len(Segments[1]) : IsWord(Segments[1][i])
    /\ NoRuleMatches(Segments[1])
    /\ result = None

\* the atoms that route_command resolves, alone, to exactly one action
Commands ==
    {a \in Atoms :
        /\ route_command(a) \notin {None, Raised}
        /\ Len(route_command(a).actions) = 1}

\* the action a command resolves to on its own
Own(c) == route_command(c).actions[1]

\* "y", "y luego", a comma optionally followed by luego/después, "luego",
\* "después", as they are written between two commands
Separators ==
    { <<Space, "y", Space>>, <<Space, "y", Space, "luego", Space>>,
      <<",", Space>>, <<",", Space, "luego", Space>>,
      <<",", Space, "después", Space>>,
      <<Space, "luego", Space>>, <<Space, "después", Space>> }

TripleCompound ==
    <<"avanza", ",", " ", "gira", " ", "a", " ", "la", " ", "derecha", " ", "y",
      " ", "avanza", " ", "otra", " ", "vez">>

\* C4: n >= 2 individually matchable commands joined by the separators yield
\* exactly n actions, the i-th being the one the i-th command resolves to on
\* its own; "avanza, gira a la derecha y avanza otra vez" yields move, turn,
\* move.
C4_OneActionPerCommand ==
    Returned =>
        /\ \A a \in Commands, b \in Commands, j \in Separators :
              text = a \o j \o b =>
                  /\ pc = "return"
                  /\ result = RouterResult(TRUE, <<Own(a), Own(b)>>)
        /\ text = TripleCompound =>
              /\ pc = "return"
              /\ result # None
              /\ [i \in 1..Len(result.actions) |-> result.actions[i].action]
                    = <<"move", "turn", "move">>

MoveVerbs == {"avanza", "retrocede"}

\* C5: a move command with a word-form quantity of the number lexicon directly
\* before metro/metros has that quantity's value as its distance ("avanza dos
\* metros" 2, "avanza medio metro" 0.5, "retrocede medio metro y baila" 0.5).
C5_WordDistance ==
    Returned =>
        /\ \A m \in MoveVerbs, q \in WordNumberKeys, u \in METERS_PATTERN :
              text = <<m, Space>> \o q \o <<Space, u>> =>
                  /\ OneAction("move")
                  /\ result.actions[1].params.distance = WordNumberValue(q)
        /\ text = Ph3("retrocede", "medio", "metro") \o <<Space, "y", Space, "baila">> =>
              /\ pc = "return"
              /\ result # None
              /\ Len(result.actions) = 2
              /\ result.actions[1].action = "move"
              /\ result.actions[1].params.distance = 5

\* C6: "da una vuelta completa" resolves to one turn action with angle 360 and
\* "da media vuelta" to one turn action with angle 180; neither returns None.
C6_FullAndHalfTurn ==
    Returned =>
        /\ text = Ph2("da", "una") \o <<Space>> \o Ph2("vuelta", "completa") =>
              OneAction("turn") /\ result.actions[1].params.angle = Tenths(360)
        /\ text = Ph3("da", "media", "vuelta") =>
              OneAction("turn") /\ result.actions[1].params.angle = Tenths(180)

\* C7: a digit quantity with a decimal part before metros is parsed as that
\* decimal value with either separator: "avanza N,F metros" and "avanza N.F
\* metros" both give the distance N.F.
C7_DecimalDistance ==
    Returned =>
        \A n \in DOMAIN IntVal, f \in DOMAIN FracTenths, sep \in {",", "."} :
            text = <<"avanza", Space, n, sep, f, Space, "metros">> =>
                /\ OneAction("move")
                /\ result.actions[1].params.distance = Tenths(IntVal[n]) + FracTenths[f]

\* the value of the number written directly before the word "grados", and
\* Tenths(30) when there is none
AngleGiven ==
    LET t == Utterance
        at == {i \in 3..Len(t) :
                 /\ t[i] \in DEGREES_PATTERN
                 /\ t[i - 1] = Space
                 /\ (IsDigits(t[i - 2]) \/ W(t[i - 2]) \in WordNumberKeys)}
    IN  IF at = {} THEN Tenths(30)
        ELSE LET i == CHOOSE a \in at : \A b \in at : a <= b
             IN  IF IsDigits(t[i - 2]) THEN Tenths(IntVal[t[i - 2]])
                 ELSE WordNumberValue(W(t[i - 2]))

LookUpTrigger == {<<W("mira"), "arriba">>, <<W("levanta"), "cabeza">>}

LookDownTrigger == {<<W("mira"), "abajo">>, <<W("baja"), "cabeza">>}

\* C8: a single-segment utterance that matches the look-up trigger and holds no
\* stop keyword resolves to one look_up action whose angle is the degree
\* quantity before "grados", 30 without one; look-down likewise.
C8_Look ==
    Returned /\ Len(Segments) = 1 /\ ~ContainsStop =>
        /\ SearchSpan(Utterance, LookUpTrigger) =>
              OneAction("look_up") /\ result.actions[1].params.angle = AngleGiven
        /\ SearchSpan(Utterance, LookDownTrigger)
              /\ ~SearchSpan(Utterance, LookUpTrigger) =>
              OneAction("look_down") /\ result.actions[1].params.angle = AngleGiven

BackwardTriggers ==
    {W("retrocede"), W("atrás"), Ph2("hacia", "atrás"), Ph2("marcha", "atrás")}

\* C9: a single-segment utterance with a backward-movement trigger and no stop,
\* sleep, wake or dance keyword resolves to one move action with direction
\* backward, "ve hacia atrás" included.
C9_Backward ==
    ( /\ Returned
      /\ Len(Segments) = 1
      /\ SearchWords(Utterance, BackwardTriggers)
      /\ \A k \in 1..4 : ~PatternSearch(COMMAND_PATTERNS[k].pattern, Utterance) )
    => OneAction("move") /\ result.actions[1].params.direction = "backward"

\* C10: route_command("venga anda para delante") returns one move action with
\* direction forward.
C10_VengaAnda ==
    Returned /\ text = <<"venga", Space, "anda", Space, "para", Space, "delante">>
    => OneAction("move") /\ result.actions[1].params.direction = "forward"

\* the place in the table of the first rule whose trigger is in the segment,
\* 0 when no rule has
FirstRule(seg) ==
    LET hits == {k \in 1..Len(COMMAND_PATTERNS) :
                    PatternSearch(COMMAND_PATTERNS[k].pattern, LowerSeq(seg))}
    IN  IF hits = {} THEN 0 ELSE CHOOSE k \in hits : \A j \in hits : k <= j

\* the action kinds and directions in the order of the claim
TableOrder ==
    << <<"stop">>, <<"sleep">>, <<"wake">>, <<"dance">>,
       <<"move", "forward">>, <<"move", "backward">>,
       <<"turn", "left">>, <<"turn", "left">>,
       <<"turn", "right">>, <<"turn", "right">>, <<"turn", "right">>,
       <<"grab">>, <<"release">>, <<"look_up">>, <<"look_down">> >>

KindOf(rule) ==
    IF "direction" \in DOMAIN rule.params
    THEN <<rule.action, rule.params.direction>>
    ELSE <<rule.action>>

\* the parameters a quantity of the utterance may replace
Quantities == {"distance", "angle"}

\* the action has the kind, the confirmation and the default parameters of
\* the rule, quantities apart
DecidedBy(a, rule) ==
    /\ a.action = rule.action
    /\ a.confirmation = rule.confirmation
    /\ DOMAIN a.params = DOMAIN rule.params
    /\ \A key \in DOMAIN a.params \ Quantities : a.params[key] = rule.params[key]

TurnRules == {k \in 1..Len(COMMAND_PATTERNS) : COMMAND_PATTERNS[k].action = "turn"}

\* the number written directly before a unit word of the segment, as digits
\* or as a word of the number lexicon
QuantityBefore(seg, unit) ==
    LET t == LowerSeq(seg)
        at == {i \in 3..Len(t) :
                 /\ t[i] \in unit
                 /\ t[i - 1] = Space
                 /\ (IsDigits(t[i - 2]) \/ W(t[i - 2]) \in WordNumberKeys)}
    IN  IF at = {} THEN NoNumber
        ELSE LET i == CHOOSE a \in at : \A b \in at : a <= b
             IN  IF IsDigits(t[i - 2]) THEN Number(Tenths(IntVal[t[i - 2]]))
                 ELSE Number(WordNumberValue(W(t[i - 2])))

NamesDirection(seg) ==
    \E i \in 1..Len(seg) : Lower(seg[i]) \in {"izquierda", "derecha"}

\* the angle the priority of the claim gives the segment
AngleByPriority(seg) ==
    LET t == LowerSeq(seg)
    IN  IF SearchWords(t, FULL_TURN.alts) THEN Tenths(360)
        ELSE IF SearchWords(t, HALF_TURN.alts) THEN Tenths(180)
        ELSE IF SearchWords(t, QUARTER_TURN.alts) THEN Tenths(90)
        ELSE IF QuantityBefore(seg, DEGREES_PATTERN).kind = "number"
        THEN QuantityBefore(seg, DEGREES_PATTERN).value
        ELSE Tenths(90)

\* C24: for a segment resolved by a turn rule the angle is 360 with a
\* full-turn phrase, else 180 with the half-turn phrase, else 90 with the
\* quarter-turn phrase, else the degree quantity before "grados", else the
\* default 90; the direction is the one of the matched rule, and right when
\* the segment names no direction.
C24_TurnAngle ==
    pc = "return" /\ result # None =>
        \A i \in 1..Len(result.actions) :
            FirstRule(Segments[i]) \in TurnRules =>
                /\ result.actions[i].params.angle = AngleByPriority(Segments[i])
                /\ result.actions[i].params.direction
                      = COMMAND_PATTERNS[FirstRule(Segments[i])].params.direction
                /\ ~NamesDirection(Segments[i]) =>
                      result.actions[i].params.direction = "right"

notSegmenter ==
    <<routerVars, serverVars, frameVars, convVars, exchVars, persistVars,
      fallbackVars>>

Least(S) == CHOOSE x \in S : \A y \in S : x <= y

Greatest(S) == CHOOSE x \in S : \A y \in S : y <= x

\* the characters of a str kept as stream positions
Str(b) == [i \in 1..Len(b) |-> stream[b[i]]]

\* the literals of THINK_PATTERN, r"<think>.*?</think>"
ThinkOpen == <<"<", "t", "h", "i", "n", "k", ">">>

ThinkClose == <<"<", "/", "t", "h", "i", "n", "k", ">">>

\* pat occurs in s at index i
OccursAt(s, pat, i) ==
    /\ i >= 1
    /\ i + Len(pat) - 1 <= Len(s)
    /\ SubSeq(s, i, i + Len(pat) - 1) = pat

\* str.find(pat, from): the first index >= from where pat occurs, 0 if none
Find(s, pat, from) ==
    LET hits == {i \in from..Len(s) : OccursAt(s, pat, i)}
    IN  IF hits = {} THEN 0 ELSE Least(hits)

\* pat in s
Contains(s, pat) == Find(s, pat, 1) # 0

\* THINK_PATTERN.sub("", b): every leftmost, shortest "<think>...</think>"
\* is removed; the scan goes on after the removed match
RECURSIVE ThinkSub(_)
\* (a slip of the substitution: only the text before the block is kept)
ThinkSubCut(b) ==
    LET i == Find(Str(b), ThinkOpen, 1)
    IN  IF i = 0 THEN b ELSE SubSeq(b, 1, i - 1)

ThinkSub(b) ==
    LET s == Str(b)
        i == Find(s, ThinkOpen, 1)
        j == IF i = 0 THEN 0 ELSE Find(s, ThinkClose, i + Len(ThinkOpen))
    IN  IF j = 0
        THEN b
        ELSE SubSeq(b, 1, i - 1)
             \o ThinkSub(SubSeq(b, j + Len(ThinkClose), Len(b)))

\* the character class of SENTENCE_END, r'[.!?;。]\s*|\n'
\* (the ideographic full stop is written "U+3002")
SentenceMarks == {".", "!", "?", ";", "U+3002"}

Newline == "\n"

\* \s, and the characters str.strip() removes
Whitespace == {" ", Newline, "\t"}

\* SENTENCE_END.search(s).end(): the leftmost match starts at the first mark
\* or newline; a mark takes the whitespace after it, a newline only itself.
\* 0 when there is no match.
SentenceEnd(s) ==
    LET starts == {i \in 1..Len(s) : s[i] \in SentenceMarks \cup {Newline}}
    IN  IF starts = {} THEN 0
        ELSE LET i == Least(starts)
             IN  IF s[i] \in SentenceMarks
                 THEN Greatest({j \in i..Len(s) :
                                  \A k \in (i + 1)..j : s[k] \in Whitespace})
                 ELSE i

\* (a slip of strip: nothing is removed)
PyStripNone(b) == b

\* str.strip()
PyStrip(b) ==
    LET keep == {i \in 1..Len(b) : Str(b)[i] \notin Whitespace}
    IN  IF keep = {} THEN <<>> ELSE SubSeq(b, Least(keep), Greatest(keep))

\* One chunk with non-empty content: the body of the for loop, lines 177-202.
\* The token is the next n characters of the stream.
Token(n) ==
    /\ gpc \in {"open", "loop"}
    /\ n \in 1..(Len(stream) - fed)
    /\ LET token == [i \in 1..n |-> fed + i]
           appended == buffer \o token
           entered == in_think_block \/ Contains(Str(appended), ThinkOpen)
           closed == entered /\ Contains(Str(appended), ThinkClose)
           after == IF closed THEN ThinkSub(appended) ELSE appended
           inside == entered /\ ~closed
           end_pos == IF inside THEN 0 ELSE SentenceEnd(Str(after))
           sentence == PyStrip(SubSeq(after, 1, end_pos))
       IN  /\ fed' = fed + n
           /\ in_think_block' = inside
           /\ buffer' = IF end_pos = 0 THEN after
                        ELSE SubSeq(after, end_pos + 1, Len(after))
           /\ yielded' = IF end_pos # 0 /\ sentence # <<>>
                         THEN Append(yielded, sentence)
                         ELSE yielded
    /\ gpc' = "loop"
    /\ UNCHANGED <<stream, notSegmenter>>

\* A chunk without content (the first chunk of a completion carries only
\* the role): `if not token: continue`, lines 178-180
SkipChunk ==
    /\ gpc = "open"
    /\ gpc' = "loop"
    /\ UNCHANGED <<stream, fed, buffer, in_think_block, yielded, notSegmenter>>

\* (a slip of the end of the generator: the remaining text is not yielded)
ExhaustedNoFlush ==
    /\ gpc \in {"open", "loop"}
    /\ fed = Len(stream)
    /\ gpc' = "done"
    /\ UNCHANGED <<stream, fed, buffer, in_think_block, yielded, notSegmenter>>

\* The stream is exhausted: lines 204-207
Exhausted ==
    /\ gpc \in {"open", "loop"}
    /\ fed = Len(stream)
    /\ LET remaining == PyStrip(buffer)
       IN  yielded' = IF remaining # <<>> /\ ~in_think_block
                      THEN Append(yielded, remaining)
                      ELSE yielded
    /\ gpc' = "done"
    /\ UNCHANGED <<stream, fed, buffer, in_think_block, notSegmenter>>

\* the largest number of pieces a modelled stream is made of
MaxPieces == 2

\* the pieces: a closed reasoning block, an unclosed one, text with a
\* boundary at its end, text without one, a newline
Pieces ==
    { <<"<", "t", "h", "i", "n", "k", ">", "a", ".", "<", "/", "t", "h", "i", "n", "k", ">">>,
      <<"<", "t", "h", "i", "n", "k", ">", "b">>,
      <<"H", "o", "l", "a", ".">>,
      <<" ", "A", "d", "i", "ó", "s">>,
      <<"\n">> }

RECURSIVE Streams(_)
Streams(n) ==
    IF n = 0 THEN {<<>>}
    ELSE Streams(n - 1) \cup {s \o p : s \in Streams(n - 1), p \in Pieces}

\* the streams of the specification's examples
StreamExamples ==
    { <<"<", "t", "h", "i", "n", "k", ">", "i", "g", "n", "o", "r", "e", " ", "t", "h", "i", "s", "<", "/", "t", "h", "i", "n", "k", ">", "H", "o", "l", "a", ".">>,
      <<"H", "o", "l", "a", ".", " ", "A", "d", "i", "ó", "s">>,
      <<"H", "o", "l", "a", " ", "a", "m", "i", "g", "o">>,
      <<"S", "í", "!", " ", "N", "o", ";", "\n", "y", "a">> }

SegmenterInit ==
    /\ stream \in Streams(MaxPieces) \cup StreamExamples
    /\ fed = 0
    /\ buffer = <<>>
    /\ in_think_block = FALSE
    /\ yielded = <<>>
    /\ gpc = "open"
    /\ RouterOff
    /\ ServerOff
    /\ FramesOff
    /\ ConversationOff
    /\ RestOff

SegmenterNext ==
    \/ \E n \in 1..Len(stream) : Token(n)
    \/ SkipChunk
    \/ Exhausted

SegmenterSpec == SegmenterInit /\ [][SegmenterNext]_vars

(***************************************************************************)
(* Properties of the segmenter                                             *)
(***************************************************************************)
\* the sentences yielded so far, as text
Sentences == [k \in 1..Len(yielded) |-> Str(yielded[k])]

\* generate_stream has returned
Done == gpc = "done"

\* The reasoning blocks of a text s, read from index `from` on: the set of
\* the indices of every "<think>", of the text after it and of its closing
\* "</think>"; a block that is never closed runs to the end of the text.
RECURSIVE Reasoning(_, _)
Reasoning(s, from) ==
    LET i == Find(s, ThinkOpen, from)
        j == IF i = 0 THEN 0 ELSE Find(s, ThinkClose, i + Len(ThinkOpen))
    IN  IF i = 0 THEN {}
        ELSE IF j = 0 THEN i..Len(s)
        ELSE (i..(j + Len(ThinkClose) - 1))
             \cup Reasoning(s, j + Len(ThinkClose))

\* the index where the unclosed "<think>" of s begins, 0 if every block of s
\* is closed
RECURSIVE Unclosed(_, _)
Unclosed(s, from) ==
    LET i == Find(s, ThinkOpen, from)
        j == IF i = 0 THEN 0 ELSE Find(s, ThinkClose, i + Len(ThinkOpen))
    IN  IF i = 0 THEN 0
        ELSE IF j = 0 THEN i
        ELSE Unclosed(s, j + Len(ThinkClose))

\* C11: no yielded sentence holds a character of a reasoning block of the
\* stream: neither a character between a "<think>" and its "</think>" (or
\* the end of the stream when the block is never closed) nor a character of
\* the delimiters, however the stream is cut into tokens.
C11_NoReasoningText ==
    \A k \in 1..Len(yielded) :
        \A i \in 1..Len(yielded[k]) :
            yielded[k][i] \notin Reasoning(stream, 1)

\* the stream holds no reasoning delimiter
DelimiterFree ==
    /\ ~Contains(stream, ThinkOpen)
    /\ ~Contains(stream, ThinkClose)

\* C12: for a stream without reasoning delimiters every yielded sentence is
\* an unbroken run of the stream that begins and ends with a non-whitespace
\* character, the sentences follow one another in stream order without
\* overlap, and every non-whitespace character consumed so far is in exactly
\* one sentence or still in the buffer; when generate_stream has returned
\* every non-whitespace character of the stream is in a sentence.
C12_NothingLostNothingTwice ==
    DelimiterFree =>
        /\ \A k \in 1..Len(yielded) :
              LET y == yielded[k]
              IN  /\ y # <<>>
                  /\ \A i \in 1..(Len(y) - 1) : y[i + 1] = y[i] + 1
                  /\ stream[y[1]] \notin Whitespace
                  /\ stream[y[Len(y)]] \notin Whitespace
        /\ \A k \in 1..(Len(yielded) - 1) :
              yielded[k][Len(yielded[k])] < yielded[k + 1][1]
        /\ \A p \in 1..fed :
              stream[p] \notin Whitespace =>
                  \/ \E k \in 1..Len(yielded) :
                        \E i \in 1..Len(yielded[k]) : yielded[k][i] = p
                  \/ /\ ~Done
                     /\ \E i \in 1..Len(buffer) : buffer[i] = p

\* a stream without delimiters was cut at two boundaries and flushed, and
\* whitespace between its sentences was dropped
C12_Witness ==
    /\ Done
    /\ DelimiterFree
    /\ Len(yielded) = 3
    /\ \E p \in 1..Len(stream) :
          /\ stream[p] \in Whitespace
          /\ yielded[1][1] < p
          /\ p < yielded[3][1]
          /\ \A k \in 1..3 : \A i \in 1..Len(yielded[k]) : yielded[k][i] # p

\* str.strip() of a text
Trimmed(s) ==
    LET keep == {i \in 1..Len(s) : s[i] \notin Whitespace}
    IN  IF keep = {} THEN <<>> ELSE SubSeq(s, Least(keep), Greatest(keep))

\* the sentences of a text with at most one boundary: the trimmed text up to
\* and including the boundary, then the trimmed rest, the empty ones left out
SentencesOf(v) ==
    LET e == SentenceEnd(v)
        head == Trimmed(SubSeq(v, 1, e))
        tail == Trimmed(SubSeq(v, e + 1, Len(v)))
    IN  (IF head = <<>> THEN <<>> ELSE <<head>>)
        \o (IF tail = <<>> THEN <<>> ELSE <<tail>>)

\* the text of the stream after its first "</think>"
Visible ==
    SubSeq(stream, Find(stream, ThinkClose, 1) + Len(ThinkClose), Len(stream))

\* the stream is one complete reasoning block followed by text that holds
\* no delimiter and at most one boundary
BlockThenText ==
    /\ OccursAt(stream, ThinkOpen, 1)
    /\ Find(stream, ThinkClose, 1 + Len(ThinkOpen)) # 0
    /\ ~Contains(Visible, ThinkOpen)
    /\ ~Contains(Visible, ThinkClose)
    /\ SentenceEnd(SubSeq(Visible, SentenceEnd(Visible) + 1, Len(Visible))) = 0

IgnoreThisHola == <<"<", "t", "h", "i", "n", "k", ">", "i", "g", "n", "o", "r", "e", " ", "t", "h", "i", "s", "<", "/", "t", "h", "i", "n", "k", ">", "H", "o", "l", "a", ".">>

\* C13: however the stream is cut into tokens, one complete reasoning block
\* followed by visible text yields exactly the sentences of the visible
\* text ("<think>ignore this</think>Hola." yields "Hola."), and a complete
\* reasoning block alone yields no sentence.
C13_BlockThenVisible ==
    Done /\ BlockThenText =>
        /\ Sentences = SentencesOf(Visible)
        /\ stream = IgnoreThisHola => Sentences = << <<"H", "o", "l", "a", ".">> >>
        /\ Visible = <<>> => yielded = <<>>

\* "<think>ignore this</think>Hola." has been segmented into "Hola."
C13_Witness ==
    /\ Done
    /\ stream = IgnoreThisHola
    /\ Sentences = << <<"H", "o", "l", "a", ".">> >>

\* C14: when the stream holds a "<think>" that is never closed, no step
\* that runs once that delimiter has arrived yields a sentence: neither a
\* chunk nor the end of the stream.
C14_UnclosedYieldsNothing ==
    [][ (/\ Unclosed(stream, 1) # 0
         /\ fed' >= Unclosed(stream, 1) + Len(ThinkOpen) - 1)
        => yielded' = yielded ]_vars

\* the stream holds no delimiter and exactly one boundary, with text before
\* it and text after it
OneInteriorBoundary ==
    /\ DelimiterFree
    /\ SentenceEnd(stream) # 0
    /\ Len(SentencesOf(stream)) = 2
    /\ SentenceEnd(SubSeq(stream, SentenceEnd(stream) + 1, Len(stream))) = 0

\* C15: however a text without delimiters and with exactly one interior
\* boundary is cut into tokens, generate_stream yields exactly two
\* sentences: the trimmed text up to and including the boundary, then the
\* trimmed rest ("Hola. Adiós" yields "Hola." and "Adiós").
C15_TwoSentences ==
    Done /\ OneInteriorBoundary =>
        /\ Sentences = SentencesOf(stream)
        /\ stream = <<"H", "o", "l", "a", ".", " ", "A", "d", "i", "ó", "s">> =>
              Sentences = << <<"H", "o", "l", "a", ".">>, <<"A", "d", "i", "ó", "s">> >>

\* "Hola. Adiós" has been segmented into its two sentences
C15_Witness ==
    /\ Done
    /\ OneInteriorBoundary
    /\ stream = <<"H", "o", "l", "a", ".", " ", "A", "d", "i", "ó", "s">>
    /\ Len(yielded) = 2

\* the sentences of a text cut at every boundary: the trimmed text up to and
\* including its first boundary, then the sentences of the rest
RECURSIVE AllSentences(_)
AllSentences(v) ==
    LET e == SentenceEnd(v)
        head == Trimmed(SubSeq(v, 1, e))
    IN  IF e = 0
        THEN IF Trimmed(v) = <<>> THEN <<>> ELSE <<Trimmed(v)>>
        ELSE (IF head = <<>> THEN <<>> ELSE <<head>>)
             \o AllSentences(SubSeq(v, e + 1, Len(v)))

\* in the sentence nothing but marks and whitespace follows a boundary mark
BoundaryAtEnd(s) ==
    \A i \in 1..Len(s) :
        s[i] \in SentenceMarks \cup {Newline} =>
            \A j \in (i + 1)..Len(s) : s[j] \in SentenceMarks \cup Whitespace

\* C27: for a text without delimiters the sentences depend on the text only,
\* not on how it is cut into tokens: every run yields the sentences of the
\* text cut at every boundary, and every sentence has its boundary marks at
\* its end only.
C27_TokenizationIndependent ==
    Done /\ DelimiterFree =>
        /\ Sentences = AllSentences(stream)
        /\ \A k \in 1..Len(Sentences) : BoundaryAtEnd(Sentences[k])

(***************************************************************************)
(* The requests and the LLM lock (app/main.py, pipelines/*/pipeline.py)    *)
(*                                                                         *)
(* The handlers are coroutines of one event loop: the code between two     *)
(* awaits runs without interruption and is one action.  The work handed to *)
(* run_in_executor runs in a thread of its own; its end is an action.      *)
(* llm_lock is an asyncio.Lock: the flag _locked and the queue _waiters of *)
(* futures; release marks the future of the first waiter done, and the     *)
(* waiter takes the lock when the event loop runs it again.                *)
(***************************************************************************)
\* the number of requests of a run; they are numbered in the order they
\* arrive
MaxRequests == 3

Requests == 1..MaxRequests

\* the endpoints whose handler may call the LLM
LlmEndpoints ==
    {"/robot/command", "/assistant/chat", "/assistant/chat/stream",
     "/assistant/chat/text"}

ResetEndpoints == {"/robot/reset", "/assistant/reset"}

\* what engine.transcribe may return: nothing, a command the keyword
\* router resolves, a sentence it does not resolve
Transcriptions == {<<>>, <<"para">>, <<"canta">>}

\* router_result = route_command(text) for each of them
router_result == [t \in Transcriptions |-> route_command(t)]

\* the variables the handlers do not touch
notServer ==
    <<routerVars, segVars, frameVars, convVars, exchVars, persistVars,
      fallbackVars>>

\* w.cancelled(): no request is cancelled while it waits
Cancelled(w) == FALSE

\* (a slip of acquire: the flag _locked is not looked at)
AcquireUnguarded(r) ==
    /\ locked' = TRUE
    /\ rpc' = [rpc EXCEPT ![r] = "llm"]
    /\ UNCHANGED <<waiters, woken>>

\* `async with llm_lock:` entered by request r (Lock.acquire up to its await)
\* and, when the lock is free, the work handed to the executor
Acquire(r) ==
    IF ~locked /\ \A i \in 1..Len(waiters) : Cancelled(waiters[i])
    THEN /\ locked' = TRUE
         /\ rpc' = [rpc EXCEPT ![r] = "llm"]
         /\ UNCHANGED <<waiters, woken>>
    ELSE /\ waiters' = Append(waiters, r)
         /\ rpc' = [rpc EXCEPT ![r] = "waiting"]
         /\ UNCHANGED <<locked, woken>>

\* (a slip of the wake-up: the waiter that came last is woken)
WakeUpLast ==
    IF waiters = <<>> THEN woken ELSE woken \cup {waiters[Len(waiters)]}

\* Lock._wake_up_first: the futures that are done after it
WakeUpFirst ==
    IF waiters = <<>> THEN woken ELSE woken \cup {Head(waiters)}

\* Lock.release, at the end of `async with llm_lock:`
Release ==
    /\ locked
    /\ locked' = FALSE
    /\ woken' = WakeUpFirst
    /\ UNCHANGED waiters

\* request r has not arrived, and every request before it has
Arrives(r) ==
    /\ endpoint[r] = "none"
    /\ \A q \in 1..(r - 1) : endpoint[q] # "none"

\* (a slip of health: it enters the lock)
HealthLocked(r) ==
    /\ Arrives(r)
    /\ endpoint' = [endpoint EXCEPT ![r] = "/health"]
    /\ Acquire(r)
    /\ UNCHANGED notServer

\* GET /health: no await, the handler runs to its return
Health(r) ==
    /\ Arrives(r)
    /\ endpoint' = [endpoint EXCEPT ![r] = "/health"]
    /\ rpc' = [rpc EXCEPT ![r] = "return"]
    /\ UNCHANGED <<locked, waiters, woken, notServer>>

\* POST /robot/reset, /assistant/reset: convo.clear() and return
Reset(r) ==
    /\ Arrives(r)
    /\ \E e \in ResetEndpoints : endpoint' = [endpoint EXCEPT ![r] = e]
    /\ rpc' = [rpc EXCEPT ![r] = "return"]
    /\ UNCHANGED <<locked, waiters, woken, notServer>>

\* POST to an endpoint that may call the LLM: the audio is read and
\* engine.transcribe is handed to the executor
Start(r) ==
    /\ Arrives(r)
    /\ \E e \in LlmEndpoints : endpoint' = [endpoint EXCEPT ![r] = e]
    /\ rpc' = [rpc EXCEPT ![r] = "asr"]
    /\ UNCHANGED <<locked, waiters, woken, notServer>>

\* (a slip of robot_command: the keyword path enters the lock as well)
TranscribedLocked(r) ==
    /\ rpc[r] = "asr"
    /\ \E t \in Transcriptions :
          IF Strip(t) = <<>>
          THEN /\ rpc' = [rpc EXCEPT ![r] = "http_400"]
               /\ UNCHANGED <<locked, waiters, woken>>
          ELSE IF endpoint[r] = "/robot/command" /\ router_result[t] = Raised
          THEN /\ rpc' = [rpc EXCEPT ![r] = "error"]
               /\ UNCHANGED <<locked, waiters, woken>>
          ELSE IF endpoint[r] = "/assistant/chat/stream"
          THEN /\ rpc' = [rpc EXCEPT ![r] = "streaming"]
               /\ UNCHANGED <<locked, waiters, woken>>
          ELSE Acquire(r)
    /\ UNCHANGED <<endpoint, notServer>>

\* The transcription is back.  No speech: HTTP 400.  /robot/command runs
\* route_command and answers from its result when there is one.
\* /assistant/chat/stream returns its StreamingResponse; the others enter
\* the lock.
Transcribed(r) ==
    /\ rpc[r] = "asr"
    /\ \E t \in Transcriptions :
          IF Strip(t) = <<>>
          THEN /\ rpc' = [rpc EXCEPT ![r] = "http_400"]
               /\ UNCHANGED <<locked, waiters, woken>>
          ELSE IF endpoint[r] = "/robot/command" /\ router_result[t] = Raised
          THEN /\ rpc' = [rpc EXCEPT ![r] = "error"]
               /\ UNCHANGED <<locked, waiters, woken>>
          ELSE IF endpoint[r] = "/robot/command" /\ router_result[t] # None
          THEN /\ rpc' = [rpc EXCEPT ![r] = "return_keyword"]
               /\ UNCHANGED <<locked, waiters, woken>>
          ELSE IF endpoint[r] = "/assistant/chat/stream"
          THEN /\ rpc' = [rpc EXCEPT ![r] = "streaming"]
               /\ UNCHANGED <<locked, waiters, woken>>
          ELSE Acquire(r)
    /\ UNCHANGED <<endpoint, notServer>>

\* audio_chunk_generator is started by the response and enters the lock
GeneratorStart(r) ==
    /\ rpc[r] = "streaming"
    /\ Acquire(r)
    /\ UNCHANGED <<endpoint, notServer>>

\* A waiter whose future is done runs again: the rest of Lock.acquire, and
\* the work is handed to the executor
Granted(r) ==
    /\ rpc[r] = "waiting"
    /\ r \in woken
    /\ waiters' = SelectSeq(waiters, LAMBDA w : w # r)
    /\ woken' = woken \ {r}
    /\ locked' = TRUE
    /\ rpc' = [rpc EXCEPT ![r] = "llm"]
    /\ UNCHANGED <<endpoint, notServer>>

\* The executor thread ends the work of the locked region: engine.generate,
\* or engine.generate_stream with the synthesis of each of its sentences.
\* It returns or raises.
JobEnds(r) ==
    /\ rpc[r] = "llm"
    /\ \E end \in {"job_returned", "job_raised"} :
          rpc' = [rpc EXCEPT ![r] = end]
    /\ UNCHANGED <<endpoint, locked, waiters, woken, notServer>>

\* The handler runs again: the lock is released, and the handler goes on to
\* its return, or the exception of the work leaves it
Finish(r) ==
    /\ rpc[r] \in {"job_returned", "job_raised"}
    /\ Release
    /\ rpc' = [rpc EXCEPT ![r] =
                  IF rpc[r] = "job_raised" THEN "error"
                  ELSE IF endpoint[r] = "/robot/command" THEN "return_llm"
                  ELSE "return"]
    /\ UNCHANGED <<endpoint, notServer>>

ServerInit ==
    /\ endpoint = [r \in Requests |-> "none"]
    /\ rpc = [r \in Requests |-> "none"]
    /\ locked = FALSE
    /\ waiters = <<>>
    /\ woken = {}
    /\ RouterOff
    /\ SegmenterOff
    /\ FramesOff
    /\ ConversationOff
    /\ RestOff

ServerNext ==
    \E r \in Requests :
        \/ Health(r)
        \/ Reset(r)
        \/ Start(r)
        \/ Transcribed(r)
        \/ GeneratorStart(r)
        \/ Granted(r)
        \/ JobEnds(r)
        \/ Finish(r)

ServerSpec == ServerInit /\ [][ServerNext]_vars

\* The event loop runs every coroutine that can run (Granted, Finish), and
\* the work in the executor ends (JobEnds).
FairServerSpec ==
    /\ ServerSpec
    /\ \A r \in Requests :
          /\ WF_vars(Granted(r))
          /\ WF_vars(JobEnds(r))
          /\ WF_vars(Finish(r))

(***************************************************************************)
(* Properties of the lock                                                  *)
(***************************************************************************)
\* the requests whose LLM generation, or the synthesis of its sentences, is
\* running in the executor
InFlight == {r \in Requests : rpc[r] = "llm"}

\* the requests inside `async with llm_lock:`
InRegion == {r \in Requests : rpc[r] \in {"llm", "job_returned", "job_raised"}}

Takes(r) == rpc[r] # "llm" /\ rpc'[r] = "llm"

\* request r is in the queue of the lock
Waits(r) == \E i \in 1..Len(waiters) : waiters[i] = r

\* C17: a request that needs the lock while it is held waits, it is not
\* turned away: a request leaves the queue only by taking the lock, the
\* request that takes the lock is the one that waited longest, a request
\* that does not wait takes it only when nobody waits, and, the work of
\* every holder ending (by return or exception), the queue empties for
\* good: every request that waited has come to run its generation.
C17_WaitInTurn ==
    /\ [][\A r \in Requests :
             /\ Takes(r) => \/ waiters = <<>>
                            \/ r = Head(waiters)
             /\ (Waits(r) /\ ~Waits(r)') => Takes(r)]_vars
    /\ <>[](waiters = <<>>)

\* the lock was released with two requests waiting: the first is woken, the
\* second goes on waiting
C17_Witness ==
    /\ Len(waiters) = 2
    /\ woken = {Head(waiters)}
    /\ ~locked
    /\ rpc[waiters[2]] = "waiting"

\* request r has been answered without entering the locked region
AnsweredOutside(r) ==
    \/ endpoint[r] = "/health" /\ rpc[r] = "return"
    \/ endpoint[r] \in ResetEndpoints /\ rpc[r] = "return"
    \/ endpoint[r] = "/robot/command" /\ rpc[r] = "return_keyword"

\* C18 as stated: /health never takes or waits for the lock, and it is the
\* only operation that is answered without entering the locked region.
C18_OnlyHealthOutside ==
    \A r \in Requests :
        /\ endpoint[r] = "/health" =>
              rpc[r] = "return" /\ \A i \in 1..Len(waiters) : waiters[i] # r
        /\ AnsweredOutside(r) => endpoint[r] = "/health"

\* C18 amended: /health never takes or waits for the lock: it is answered
\* in the step it arrives in, whatever the state of the lock, and leaves the
\* lock as it was.  The operations answered without entering the locked
\* region are /health, the resets and a /robot/command the keyword router
\* resolved; every other answer follows the work of the locked region.
C18_HealthOutside ==
    /\ [](\A r \in Requests :
             /\ endpoint[r] = "/health" =>
                   /\ rpc[r] = "return"
                   /\ r \notin InRegion
                   /\ \A i \in 1..Len(waiters) : waiters[i] # r
             /\ Arrives(r) => ENABLED Health(r))
    /\ [][\A r \in Requests :
             /\ (endpoint[r] = "none" /\ endpoint'[r] = "/health") =>
                   /\ rpc'[r] = "return"
                   /\ UNCHANGED <<locked, waiters, woken>>
             /\ (rpc[r] # rpc'[r] /\ rpc'[r] \in {"return", "return_llm"}) =>
                   \/ rpc[r] = "job_returned"
                   \/ endpoint'[r] \in {"/health"} \cup ResetEndpoints]_vars

\* /health was answered while another request's generation is in flight
\* and a third request waits for the lock
C18_Witness ==
    \E r \in Requests :
        /\ endpoint[r] = "/health"
        /\ rpc[r] = "return"
        /\ \E q \in InFlight : q < r
        /\ \E i \in 1..Len(waiters) : waiters[i] < r

\* the transcription of request r comes back and the keyword router
\* resolves it
KeywordAnswer(r) == Transcribed(r) /\ rpc'[r] = "return_keyword"

\* C28: a /robot/command request whose transcription the keyword router
\* resolves is answered in the step that receives the transcription,
\* whatever the state of the lock: the step is possible while another
\* request holds the lock or waits for it, it leaves the lock and its queue
\* as they are, and the request has never waited for the lock nor run a
\* generation.
C28_KeywordPathLockFree ==
    /\ [](\A r \in Requests :
             rpc[r] = "asr" /\ endpoint[r] = "/robot/command"
             => ENABLED KeywordAnswer(r))
    /\ [][\A r \in Requests :
             (rpc[r] # "return_keyword" /\ rpc'[r] = "return_keyword") =>
                 /\ rpc[r] = "asr"
                 /\ UNCHANGED <<locked, waiters, woken>>]_vars

\* a command was answered by the keyword router while an earlier request
\* generates under the lock and another one waits for it
C28_Witness ==
    \E r \in Requests :
        /\ rpc[r] = "return_keyword"
        /\ locked
        /\ \E q \in InFlight : q < r
        /\ \E i \in 1..Len(waiters) : waiters[i] < r

(***************************************************************************)
(* The streamed response: audio_chunk_generator of /assistant/chat/stream  *)
(* (pipelines/assistant/pipeline.py) and engine.synthesize (app/engine.py) *)
(*                                                                         *)
(* A bytes object is the sequence of its bytes, numbers in 0..255.  The    *)
(* response of one request is followed; the lock is free when it starts.   *)
(***************************************************************************)
\* the largest number of sentences generate_stream yields for the response
MaxSentences == 3

\* the variables audio_chunk_generator does not touch
notFrames ==
    <<routerVars, segVars, serverVars, convVars, exchVars, persistVars,
      fallbackVars>>

\* (a slip of the format: ">I", big-endian)
PackBE(n) ==
    <<(n \div 16777216) % 256, (n \div 65536) % 256, (n \div 256) % 256, n % 256>>

\* struct.pack("<I", n), n below 2^32
PackU32(n) ==
    <<n % 256, (n \div 256) % 256, (n \div 65536) % 256, (n \div 16777216) % 256>>

\* struct.pack("<H", n), as the wave module writes its 16-bit fields
PackU16(n) == <<n % 256, (n \div 256) % 256>>

\* the bytes of an ASCII tag of the WAV header
RIFF == <<82, 73, 70, 70>>

WAVE == <<87, 65, 86, 69>>

FMT == <<102, 109, 116, 32>>

DATA == <<100, 97, 116, 97>>

\* self.tts_voice.config.sample_rate of the voice
SampleRate == 22050

\* engine.synthesize: the WAV file wave.open writes for mono 16-bit PCM:
\* the 44-byte header, then the samples
Wav(pcm) ==
    RIFF \o PackU32(36 + Len(pcm)) \o WAVE
    \o FMT \o PackU32(16) \o PackU16(1) \o PackU16(1)
    \o PackU32(SampleRate) \o PackU32(SampleRate * 2)
    \o PackU16(2) \o PackU16(16)
    \o DATA \o PackU32(Len(pcm)) \o pcm

\* what the voice may synthesize for a sentence: nothing, one sample, two
\* samples of silence, 128 samples of silence
PcmClips ==
    { <<>>, <<1, 0>>, <<0, 0, 0, 0>>, [i \in 1..256 |-> 0] }

\* the lists generate_chunks may return: one WAV for each sentence
RECURSIVE WavLists(_)
WavLists(k) ==
    IF k = 0 THEN {<<>>}
    ELSE WavLists(k - 1)
         \cup {Append(l, Wav(c)) : l \in {m \in WavLists(k - 1) : Len(m) = k - 1},
                                   c \in PcmClips}

\* The locked region of audio_chunk_generator: generate_chunks returns the
\* WAV of every sentence, or the generation raises
GenerateChunks ==
    /\ spc = "lock"
    /\ \/ /\ results' \in WavLists(MaxSentences)
          /\ spc' = "frames"
       \/ /\ results' = results
          /\ spc' = "error"
    /\ UNCHANGED <<sent, notFrames>>

\* One turn of `for sentence, wav_bytes in results`: a frame is yielded
YieldFrame ==
    /\ spc = "frames"
    /\ Len(sent) < Len(results)
    /\ LET wav_bytes == results[Len(sent) + 1]
           length == Len(wav_bytes)
       IN  sent' = Append(sent, PackU32(length) \o wav_bytes)
    /\ UNCHANGED <<results, spc, notFrames>>

\* After the loop: the end marker is yielded
YieldEndMarker ==
    /\ spc = "frames"
    /\ Len(sent) = Len(results)
    /\ sent' = Append(sent, PackU32(0))
    /\ spc' = "end"
    /\ UNCHANGED <<results, notFrames>>

\* The response asks for more: convo.add_exchange, and the generator ends
SaveHistory ==
    /\ spc = "end"
    /\ spc' = "saved"
    /\ UNCHANGED <<results, sent, notFrames>>

StreamInit ==
    /\ results = <<>>
    /\ sent = <<>>
    /\ spc = "lock"
    /\ RouterOff
    /\ SegmenterOff
    /\ ServerOff
    /\ ConversationOff
    /\ RestOff

StreamNext ==
    \/ GenerateChunks
    \/ YieldFrame
    \/ YieldEndMarker
    \/ SaveHistory

StreamSpec == StreamInit /\ [][StreamNext]_vars

(***************************************************************************)
(* Properties of the streamed response                                     *)
(***************************************************************************)
\* the bytes the client has received: the chunks yielded, one after another
RECURSIVE Concat(_)
Concat(chunks) ==
    IF chunks = <<>> THEN <<>> ELSE Head(chunks) \o Concat(Tail(chunks))

\* a 4-byte little-endian unsigned number read back
U32(b) == b[1] + 256 * b[2] + 65536 * b[3] + 16777216 * b[4]

\* The client's reading of a byte stream by the protocol of the docstring:
\* 4 bytes of length, that many bytes of payload, again, until a length of
\* zero.  frames: the payloads read; ended: the end marker was read; rest:
\* the bytes left over (after the end marker, or an incomplete frame).
RECURSIVE Decode(_, _)
Decode(bytes, frames) ==
    IF Len(bytes) < 4
    THEN [frames |-> frames, ended |-> FALSE, rest |-> bytes]
    ELSE LET n == U32(SubSeq(bytes, 1, 4))
         IN  IF n = 0
             THEN [frames |-> frames, ended |-> TRUE,
                   rest |-> SubSeq(bytes, 5, Len(bytes))]
             ELSE IF Len(bytes) < 4 + n
             THEN [frames |-> frames, ended |-> FALSE, rest |-> bytes]
             ELSE Decode(SubSeq(bytes, 5 + n, Len(bytes)),
                         Append(frames, SubSeq(bytes, 5, 4 + n)))

Received == Decode(Concat(sent), <<>>)

\* C19: the bytes of the response read back as frames are, at every moment,
\* the WAVs of the first sentences in sentence order, none of length zero,
\* with nothing left over; once the generator has passed its loop they are
\* the frames of all k sentences followed by exactly one end marker, 4 zero
\* bytes, and nothing after it.
C19_Framing ==
    spc \in {"frames", "end", "saved"} =>
        /\ Received.rest = <<>>
        /\ Received.frames = SubSeq(results, 1, Len(Received.frames))
        /\ \A i \in 1..Len(Received.frames) : Len(Received.frames[i]) > 0
        /\ Received.ended <=> spc \in {"end", "saved"}
        /\ spc \in {"end", "saved"} =>
              /\ Received.frames = results
              /\ Len(sent) = Len(results) + 1
              /\ sent[Len(sent)] = <<0, 0, 0, 0>>
              /\ \A i \in 1..Len(results) :
                    sent[i] = PackU32(Len(results[i])) \o results[i]

\* a response of three sentences has been streamed to its end; one WAV is
\* longer than 255 bytes and one carries only silence
C19_Witness ==
    /\ spc = "saved"
    /\ Len(results) = 3
    /\ Len(results[1]) > 255
    /\ Len(results[2]) = 48
    /\ Received.ended

(***************************************************************************)
(* The streamed response with its generation: generate_chunks drives       *)
(* generate_stream inside the locked region of audio_chunk_generator, and  *)
(* the frames follow (pipelines/assistant/pipeline.py, lines 155-180).     *)
(* The chunks list of generate_chunks holds one entry for each sentence    *)
(* yielded so far.                                                         *)
(***************************************************************************)
\* generate_chunks returns: the generator is exhausted, every sentence has
\* its WAV, and `results` is bound; the lock is released
ReturnChunks ==
    /\ spc = "lock"
    /\ gpc = "done"
    /\ spc' = "frames"
    /\ \E wavs \in [1..Len(yielded) -> {Wav(c) : c \in PcmClips}] :
          results' = wavs
    /\ UNCHANGED <<sent, notFrames>>

ChatStreamInit ==
    /\ stream \in Streams(MaxPieces) \cup StreamExamples
    /\ fed = 0
    /\ buffer = <<>>
    /\ in_think_block = FALSE
    /\ yielded = <<>>
    /\ gpc = "open"
    /\ results = <<>>
    /\ sent = <<>>
    /\ spc = "lock"
    /\ RouterOff
    /\ ServerOff
    /\ ConversationOff
    /\ RestOff

ChatStreamNext ==
    \/ \E n \in 1..Len(stream) : Token(n)
    \/ SkipChunk
    \/ Exhausted
    \/ ReturnChunks
    \/ YieldFrame
    \/ YieldEndMarker
    \/ SaveHistory

ChatStreamSpec == ChatStreamInit /\ [][ChatStreamNext]_vars

\* C21: in /assistant/chat/stream, for a response of two or more sentences,
\* the step that yields the frame of the first sentence is taken before the
\* token stream of the request is exhausted.
C21_FirstFrameBeforeExhaustion ==
    [][ (/\ sent = <<>>
         /\ Len(sent') = 1
         /\ Len(yielded') >= 2
         /\ spc' = "frames")
        => gpc # "done" ]_vars

(***************************************************************************)
(* The conversation history: ConversationManager (app/conversation.py)     *)
(*                                                                         *)
(* One manager that started empty (no history file, or none for its name). *)
(* A message is the record of its role and its content.                    *)
(***************************************************************************)
\* the largest max_turns a manager is built with
MaxTurns == 2

\* the largest number of calls of add_exchange in a run
MaxExchanges == 4

\* what a user may have said, and what may have been answered
UserTexts == {"hola", "avanza"}

AssistantTexts == {"vale", "no entiendo"}

\* the variables the manager does not touch
notConversation ==
    <<routerVars, segVars, serverVars, frameVars, exchVars, persistVars,
      fallbackVars>>

\* (a slip of __init__: the window counts messages, not turns)
MaxLenInTurns == max_turns

\* deque(maxlen=max_turns * 2)
MaxLen == max_turns * 2

\* deque.append on a deque of maximum length maxlen: a full deque drops its
\* first item; a deque of maximum length 0 stays empty
DequeAppend(d, x, maxlen) ==
    IF maxlen = 0 THEN d
    ELSE IF Len(d) = maxlen THEN Append(Tail(d), x)
    ELSE Append(d, x)

Message(role, content) == [role |-> role, content |-> content]

\* add_exchange(user_text, assistant_text), under self._lock: the two
\* appends and _save_to_disk
add_exchange(user_text, assistant_text) ==
    LET first == DequeAppend(history, Message("user", user_text), MaxLen)
        second == DequeAppend(first, Message("assistant", assistant_text),
                              MaxLen)
    IN  /\ history' = second
        /\ disk' = second
        /\ added' = Append(added, <<user_text, assistant_text>>)

\* get_messages(user_text), under self._lock (the system prompt is written 0)
get_messages(user_text) ==
    <<Message("system", 0)>> \o history \o <<Message("user", user_text)>>

\* one call of add_exchange
AddExchange ==
    /\ Len(added) < MaxExchanges
    /\ \E user_text \in UserTexts, assistant_text \in AssistantTexts :
          add_exchange(user_text, assistant_text)
    /\ UNCHANGED <<max_turns, notConversation>>

ConversationInit ==
    /\ max_turns \in 0..MaxTurns
    /\ history = <<>>
    /\ added = <<>>
    /\ disk = <<>>
    /\ RouterOff
    /\ SegmenterOff
    /\ ServerOff
    /\ FramesOff
    /\ RestOff

ConversationNext == AddExchange

ConversationSpec == ConversationInit /\ [][ConversationNext]_vars

(***************************************************************************)
(* Properties of the conversation history                                  *)
(***************************************************************************)
\* the smaller of two numbers
Smaller(a, b) == IF a <= b THEN a ELSE b

\* the number of exchanges the window holds after n of them
Kept == Smaller(Len(added), max_turns)

\* the two messages of the i-th exchange added
Pair(i) == <<Message("user", added[i][1]), Message("assistant", added[i][2])>>

\* C20: after any number n of add_exchange calls on a manager that started
\* empty, the history is exactly the last min(n, max_turns) exchanges in
\* the order they were added, each a user message followed at once by its
\* assistant message; it never holds more than 2*max_turns messages; and
\* an add_exchange on a full history drops exactly its oldest pair.
C20_SlidingWindow ==
    /\ [](/\ Len(history) = 2 * Kept
          /\ Len(history) <= 2 * max_turns
          /\ \A i \in 1..Kept :
                SubSeq(history, 2 * i - 1, 2 * i)
                    = Pair(Len(added) - Kept + i))
    /\ [][(Len(history) = 2 * max_turns /\ max_turns > 0) =>
             history' = SubSeq(history, 3, Len(history))
                        \o Pair(Len(added))']_vars

\* a window of two turns has been slid twice
C20_Witness ==
    /\ max_turns = 2
    /\ Len(added) = 4
    /\ Len(history) = 4
    /\ history[1].content # added[1][1]

(***************************************************************************)
(* The requests of one project and its history: the handlers of            *)
(* pipelines/*/pipeline.py with convo.get_messages and convo.add_exchange. *)
(*                                                                         *)
(* The requests of a run all go to one project, so one ConversationManager *)
(* is followed.  The text transcribed for request r is written r and the   *)
(* response generated for it -r, so that an exchange tells its request.    *)
(***************************************************************************)
\* the number of requests of a run
MaxAsks == 2

Asks == 1..MaxAsks

\* max_history_turns of both pipelines
max_history_turns == 10

\* POST to an endpoint that may call the LLM, of the project the earlier
\* requests went to
Ask(r) ==
    LET Project(e) == IF e = "/robot/command" THEN "robot" ELSE "assistant"
    IN  /\ Start(r)
        /\ \A q \in 1..(r - 1) : Project(endpoint'[r]) = Project(endpoint[q])

\* The transcription is back.  No speech: HTTP 400.  /robot/command answers
\* from the keyword router when it resolves the text, and records the
\* exchange.  Otherwise the handler builds its message list, and
\* /assistant/chat/stream returns its StreamingResponse while the others
\* enter the lock.
Heard(r) ==
    /\ rpc[r] = "asr"
    /\ \E t \in Transcriptions :
          IF Strip(t) = <<>>
          THEN /\ rpc' = [rpc EXCEPT ![r] = "http_400"]
               /\ UNCHANGED <<locked, waiters, woken, messages, history, added,
                              disk>>
          ELSE IF endpoint[r] = "/robot/command" /\ router_result[t] = Raised
          THEN /\ rpc' = [rpc EXCEPT ![r] = "error"]
               /\ UNCHANGED <<locked, waiters, woken, messages, history, added,
                              disk>>
          ELSE IF endpoint[r] = "/robot/command" /\ router_result[t] # None
          THEN /\ add_exchange(r, -r)
               /\ rpc' = [rpc EXCEPT ![r] = "return_keyword"]
               /\ UNCHANGED <<locked, waiters, woken, messages>>
          ELSE /\ messages' = [messages EXCEPT ![r] = get_messages(r)]
               /\ UNCHANGED <<history, added, disk>>
               /\ IF endpoint[r] = "/assistant/chat/stream"
                  THEN /\ rpc' = [rpc EXCEPT ![r] = "streaming"]
                       /\ UNCHANGED <<locked, waiters, woken>>
                  ELSE Acquire(r)
    /\ UNCHANGED <<endpoint, held, max_turns, routerVars, segVars, frameVars,
                   persistVars, fallbackVars>>

\* The handler runs again after the work in the executor: the lock is
\* released; an exception of the work leaves the handler; the generator of
\* /assistant/chat/stream goes on to yield its frames; the other handlers
\* record the exchange and return.
Leave(r) ==
    /\ rpc[r] \in {"job_returned", "job_raised"}
    /\ Release
    /\ held' = Append(held, r)
    /\ IF rpc[r] = "job_raised"
       THEN /\ rpc' = [rpc EXCEPT ![r] = "error"]
            /\ UNCHANGED <<history, added, disk>>
       ELSE IF endpoint[r] = "/assistant/chat/stream"
       THEN /\ rpc' = [rpc EXCEPT ![r] = "frames"]
            /\ UNCHANGED <<history, added, disk>>
       ELSE /\ add_exchange(r, -r)
            /\ rpc' = [rpc EXCEPT ![r] = IF endpoint[r] = "/robot/command"
                                         THEN "return_llm" ELSE "return"]
    /\ UNCHANGED <<endpoint, messages, max_turns, routerVars, segVars,
                   frameVars, persistVars, fallbackVars>>

\* The generator of /assistant/chat/stream after its frames: the client
\* took them all and the end marker, and the exchange is recorded; or the
\* client stopped reading and the generator was closed at a yield.
GeneratorEnds(r) ==
    /\ rpc[r] = "frames"
    /\ \/ /\ add_exchange(r, -r)
          /\ rpc' = [rpc EXCEPT ![r] = "return"]
       \/ /\ rpc' = [rpc EXCEPT ![r] = "closed"]
          /\ UNCHANGED <<history, added, disk>>
    /\ UNCHANGED <<endpoint, locked, waiters, woken, messages, held, max_turns,
                   routerVars, segVars, frameVars, persistVars, fallbackVars>>

ExchangeInit ==
    /\ endpoint = [r \in Asks |-> "none"]
    /\ rpc = [r \in Asks |-> "none"]
    /\ locked = FALSE
    /\ waiters = <<>>
    /\ woken = {}
    /\ max_turns = max_history_turns
    /\ history = <<>>
    /\ added = <<>>
    /\ disk = <<>>
    /\ messages = [r \in Asks |-> <<>>]
    /\ held = <<>>
    /\ RouterOff
    /\ SegmenterOff
    /\ FramesOff
    /\ PersistOff
    /\ FallbackOff

ExchangeNext ==
    \E r \in Asks :
        \/ Ask(r)
        \/ Heard(r)
        \/ GeneratorStart(r)
        \/ Granted(r)
        \/ JobEnds(r)
        \/ Leave(r)
        \/ GeneratorEnds(r)

ExchangeSpec == ExchangeInit /\ [][ExchangeNext]_vars

(***************************************************************************)
(* Properties of the requests of one project                               *)
(***************************************************************************)
\* C29: the message list a generation runs on contains every message that
\* is in the project's history at the moment the generation takes the LLM
\* lock: no generation runs on a snapshot that misses an exchange recorded
\* before it started.
C29_FreshSnapshot ==
    [][\A r \in Asks :
          Takes(r) =>
              \A i \in 1..Len(history') :
                  \E j \in 1..Len(messages'[r]) :
                      messages'[r][j] = history'[i]]_vars

\* the requests whose generation completed and whose handler, or whose
\* stream, has ended
Completed == {r \in Asks : rpc[r] \in {"return", "return_llm", "closed"}}

\* the places of the exchange of request r in the history
ExchangesOf(r) == {i \in 1..Len(added) : added[i] = <<r, -r>>}

\* the place of request r among the holders of the lock, 0 before it held it
HeldAt(r) ==
    IF \E k \in 1..Len(held) : held[k] = r
    THEN CHOOSE k \in 1..Len(held) : held[k] = r
    ELSE 0

\* C30: every request with a non-blank transcription whose generation
\* completed has appended exactly one exchange to its project's history, on
\* each of the generating endpoints and whether or not the client consumed
\* the whole response; and the exchanges of generations stand in the
\* history in the order the generations held the lock.
C30_OneExchangeInLockOrder ==
    /\ \A r \in Asks : Cardinality(ExchangesOf(r)) <= 1
    /\ \A r \in Completed : Cardinality(ExchangesOf(r)) = 1
    /\ \A i, j \in 1..Len(added) :
          (i < j /\ HeldAt(added[i][1]) > 0 /\ HeldAt(added[j][1]) > 0)
          => HeldAt(added[i][1]) < HeldAt(added[j][1])

(***************************************************************************)
(* Two managers and the history file they share (app/conversation.py,      *)
(* app/main.py lifespan: every pipeline's manager gets the same            *)
(* persist_path).  A call of add_exchange or of clear holds the lock of    *)
(* its own manager from its start to its return, so at most one call runs  *)
(* on a manager; the calls on the two managers run in different threads.   *)
(* The file is the function from the names to the lists saved under them,  *)
(* a name that is missing having the empty list.  The texts of the n-th    *)
(* call are written n and -n.                                              *)
(***************************************************************************)
\* pipeline.name of the two pipelines
Managers == {"robot", "assistant"}

\* add_exchange or clear is called on manager m: self._lock is taken and the
\* history is changed in memory
Begin(m) ==
    /\ tpc[m] = "idle"
    /\ ncalls < MaxExchanges
    /\ ncalls' = ncalls + 1
    /\ \/ histories' =
             [histories EXCEPT ![m] =
                 DequeAppend(DequeAppend(@, Message("user", ncalls + 1),
                                         2 * max_history_turns),
                             Message("assistant", -(ncalls + 1)),
                             2 * max_history_turns)]
       \/ histories' = [histories EXCEPT ![m] = <<>>]
    /\ tpc' = [tpc EXCEPT ![m] = "save"]
    /\ UNCHANGED <<file, existing, routerVars, segVars, serverVars, frameVars,
                   convVars, exchVars, fallbackVars>>

\* _save_to_disk: existing = json.loads(path.read_text())
ReadExisting(m) ==
    /\ tpc[m] = "save"
    /\ existing' = [existing EXCEPT ![m] = file]
    /\ tpc' = [tpc EXCEPT ![m] = "write"]
    /\ UNCHANGED <<histories, file, ncalls, routerVars, segVars, serverVars,
                   frameVars, convVars, exchVars, fallbackVars>>

\* _save_to_disk: existing[self.name] = list(self.history) and
\* path.write_text(json.dumps(existing)); the call returns and self._lock is
\* released
WriteText(m) ==
    /\ tpc[m] = "write"
    /\ file' = [existing[m] EXCEPT ![m] = histories[m]]
    /\ tpc' = [tpc EXCEPT ![m] = "idle"]
    /\ UNCHANGED <<histories, existing, ncalls, routerVars, segVars, serverVars,
                   frameVars, convVars, exchVars, fallbackVars>>

PersistInit ==
    /\ histories = [m \in Managers |-> <<>>]
    /\ file = [m \in Managers |-> <<>>]
    /\ tpc = [m \in Managers |-> "idle"]
    /\ existing = [m \in Managers |-> [n \in Managers |-> <<>>]]
    /\ ncalls = 0
    /\ RouterOff
    /\ SegmenterOff
    /\ ServerOff
    /\ FramesOff
    /\ ConversationOff
    /\ ExchangeOff
    /\ FallbackOff

PersistNext ==
    \E m \in Managers :
        \/ Begin(m)
        \/ ReadExisting(m)
        \/ WriteText(m)

PersistSpec == PersistInit /\ [][PersistNext]_vars

\* C22: under any interleaving of add_exchange and clear calls on two
\* managers with different names that share one file, once all calls have
\* returned the file holds, for each project, exactly that manager's current
\* history in memory: no write loses or reverts the other project's saved
\* history.
C22_FileHoldsBothHistories ==
    (\A m \in Managers : tpc[m] = "idle")
    => \A m \in Managers : file[m] = histories[m]

(***************************************************************************)
(* The LLM fallback of /robot/command (pipelines/robot/pipeline.py).       *)
(* A text is the sequence of its JSON lexemes: <<"{">>, <<"}">>, <<"[">>,  *)
(* <<"]">>, <<":">>, <<",">>, <<"string", s>> for the literal "s",         *)
(* <<"number", n>>, and <<"unterminated", s>> for a literal of s that      *)
(* the end of the text cuts before its closing quote.  A value is          *)
(* <<"str", s>>, <<"num", n>>, <<"arr", items>> or <<"obj", pairs>> with   *)
(* the pairs <<key, value>> in insertion order, as in a Python dict;       *)
(* <<"text", t>> is the Python str that holds the whole text t.            *)
(***************************************************************************)
S(x) == <<"str", x>>
Num(n) == <<"num", n>>
Arr(items) == <<"arr", items>>
Obj(pairs) == <<"obj", pairs>>
Text(t) == <<"text", t>>

\* key in d
Has(d, key) == \E i \in 1..Len(d) : d[i][1] = key

\* d.get(key)
Get(d, key) ==
    IF Has(d, key)
    THEN d[CHOOSE i \in 1..Len(d) : d[i][1] = key][2]
    ELSE <<"missing">>

\* d[key] = value: a key already present keeps its place
DictSet(d, key, value) ==
    IF Has(d, key)
    THEN [i \in 1..Len(d) |-> IF d[i][1] = key THEN <<key, value>> ELSE d[i]]
    ELSE Append(d, <<key, value>>)

RECURSIVE DictUpdate(_, _)
\* {**d, **e}
DictUpdate(d, e) ==
    IF Len(e) = 0 THEN d
    ELSE DictUpdate(DictSet(d, e[1][1], e[1][2]), Tail(e))

\* the result of a parse that raised json.JSONDecodeError
JSONDecodeError == [ok |-> FALSE, val |-> <<"none">>, next |-> 0]

RECURSIVE ParseValue(_, _)
RECURSIVE ParseMembers(_, _, _)
RECURSIVE ParseElements(_, _, _)
\* json: the value that starts at lexeme i of text s, and where it ends
ParseValue(s, i) ==
    IF i > Len(s) THEN JSONDecodeError
    ELSE CASE s[i][1] = "string" ->
                  [ok |-> TRUE, val |-> S(s[i][2]), next |-> i + 1]
           [] s[i][1] = "number" ->
                  [ok |-> TRUE, val |-> Num(s[i][2]), next |-> i + 1]
           [] s[i][1] = "{" ->
                  IF i + 1 <= Len(s) /\ s[i + 1][1] = "}"
                  THEN [ok |-> TRUE, val |-> Obj(<<>>), next |-> i + 2]
                  ELSE ParseMembers(s, i + 1, <<>>)
           [] s[i][1] = "[" ->
                  IF i + 1 <= Len(s) /\ s[i + 1][1] = "]"
                  THEN [ok |-> TRUE, val |-> Arr(<<>>), next |-> i + 2]
                  ELSE ParseElements(s, i + 1, <<>>)
           [] OTHER -> JSONDecodeError

\* json: the members of an object from lexeme i on, d being those read so far
ParseMembers(s, i, d) ==
    IF i + 1 > Len(s) THEN JSONDecodeError
    ELSE IF s[i][1] # "string" \/ s[i + 1][1] # ":" THEN JSONDecodeError
    ELSE LET v == ParseValue(s, i + 2)
         IN  IF ~v.ok THEN JSONDecodeError
             ELSE IF v.next > Len(s) THEN JSONDecodeError
             ELSE IF s[v.next][1] = "}"
             THEN [ok |-> TRUE, val |-> Obj(DictSet(d, s[i][2], v.val)),
                   next |-> v.next + 1]
             ELSE IF s[v.next][1] = ","
             THEN ParseMembers(s, v.next + 1, DictSet(d, s[i][2], v.val))
             ELSE JSONDecodeError

\* json: the elements of an array from lexeme i on, a being those read so far
ParseElements(s, i, a) ==
    LET v == ParseValue(s, i)
    IN  IF ~v.ok THEN JSONDecodeError
        ELSE IF v.next > Len(s) THEN JSONDecodeError
        ELSE IF s[v.next][1] = "]"
        THEN [ok |-> TRUE, val |-> Arr(Append(a, v.val)), next |-> v.next + 1]
        ELSE IF s[v.next][1] = ","
        THEN ParseElements(s, v.next + 1, Append(a, v.val))
        ELSE JSONDecodeError

\* json.loads(s): one value and nothing after it
json_loads(s) ==
    LET v == ParseValue(s, 1)
    IN  IF v.ok /\ v.next = Len(s) + 1 THEN v ELSE JSONDecodeError

RECURSIVE Render(_)
RECURSIVE RenderPairs(_)
RECURSIVE RenderItems(_)
\* the text of a value
Render(v) ==
    CASE v[1] = "str" -> << <<"string", v[2]>> >>
      [] v[1] = "num" -> << <<"number", v[2]>> >>
      [] v[1] = "obj" -> << <<"{">> >> \o RenderPairs(v[2]) \o << <<"}">> >>
      [] v[1] = "arr" -> << <<"[">> >> \o RenderItems(v[2]) \o << <<"]">> >>

RenderPairs(ps) ==
    IF Len(ps) = 0 THEN <<>>
    ELSE << <<"string", ps[1][1]>>, <<":">> >> \o Render(ps[1][2])
         \o (IF Len(ps) > 1 THEN << <<",">> >> ELSE <<>>)
         \o RenderPairs(Tail(ps))

RenderItems(a) ==
    IF Len(a) = 0 THEN <<>>
    ELSE Render(a[1])
         \o (IF Len(a) > 1 THEN << <<",">> >> ELSE <<>>)
         \o RenderItems(Tail(a))

\* objects a model may answer with
Objects ==
    { Obj(<< <<"actions",
               Arr(<< Obj(<< <<"action", S("move")>>,
                             <<"params",
                               Obj(<< <<"direction", S("forward")>>,
                                      <<"distance", Num(20)>> >>)>> >>) >>)>> >>),
      Obj(<< <<"actions",
               Arr(<< Obj(<< <<"action", S("stop")>> >>),
                      Obj(<< <<"action", S("sleep")>> >>) >>)>> >>),
      Obj(<< <<"actions", Arr(<<>>)>>, <<"_routed_by", S("keyword")>> >>),
      Obj(<< <<"action", S("grab")>>, <<"params", Obj(<<>>)>> >>),
      Obj(<< <<"action", S("turn")>>,
             <<"params", Obj(<< <<"angle", Num(45)>> >>)>>,
             <<"action", S("stop")>> >>),
      Obj(<< <<"response", S("hola")>>, <<"_routed_by", S("keyword")>> >>),
      Obj(<< <<"transcription", S("otra")>>,
             <<"actions", Arr(<< S("dance") >>)>> >>),
      Obj(<<>>) }

\* the texts that end before lexeme k of text t: at a lexeme's start, or
\* inside a string literal
CutAt(t, k) ==
    {SubSeq(t, 1, k - 1)}
    \cup (IF t[k][1] = "string"
          THEN {Append(SubSeq(t, 1, k - 1), <<"unterminated", t[k][2]>>)}
          ELSE {})

\* engine.generate(messages, json_mode=True): the generation is constrained
\* to a JSON object and ends when the object is closed or when max_tokens is
\* reached, which cuts the text anywhere
generate_json ==
    UNION { {Render(v)} \cup UNION {CutAt(Render(v), k) : k \in 1..Len(Render(v))}
            : v \in Objects }

\* what the robot heard in this request
heard == S("baila un poco")

\* the except clause taken for every text: the answer never carries what the
\* model said
command_data_error(out) ==
    << <<"actions",
         Arr(<< Obj(<< <<"action", S("error")>>,
                       <<"params", Obj(<< <<"raw", Text(out)>> >>)>> >>) >>)>> >>

\* command_data of the handler: the try block and its except clause
command_data(out) ==
    LET parsed == json_loads(out)
    IN  IF parsed.ok
        THEN IF ~Has(parsed.val[2], "actions")
             THEN << <<"actions", Arr(<<parsed.val>>)>> >>
             ELSE parsed.val[2]
        ELSE << <<"actions",
                  Arr(<< Obj(<< <<"action", S("error")>>,
                                <<"params",
                                  Obj(<< <<"raw", Text(out)>> >>)>> >>) >>)>> >>

\* the content of the JSONResponse: {"transcription": text, **command_data,
\* "_routed_by": "llm", "_timing": {...}}
Content(out) ==
    Obj(DictSet(DictSet(DictUpdate(<< <<"transcription", heard>> >>,
                                   command_data(out)),
                        "_routed_by", S("llm")),
                "_timing", Obj(<<>>)))

\* the generation returns inside the lock
Generate ==
    /\ fpc = "generate"
    /\ response_text' \in generate_json
    /\ fpc' = "parse"
    /\ UNCHANGED <<sent_json, routerVars, segVars, serverVars, frameVars,
                   convVars, exchVars, persistVars>>

\* the handler from the release of the lock to its return
Answer ==
    /\ fpc = "parse"
    /\ add_exchange(heard, Text(response_text))
    /\ sent_json' = Content(response_text)
    /\ fpc' = "done"
    /\ UNCHANGED <<response_text, max_turns, routerVars, segVars, serverVars,
                   frameVars, exchVars, persistVars>>

FallbackInit ==
    /\ response_text = <<>>
    /\ sent_json = <<>>
    /\ fpc = "generate"
    /\ max_turns = max_history_turns
    /\ history = <<>>
    /\ added = <<>>
    /\ disk = <<>>
    /\ RouterOff
    /\ SegmenterOff
    /\ ServerOff
    /\ FramesOff
    /\ ExchangeOff
    /\ PersistOff

FallbackNext ==
    \/ Generate
    \/ Answer

FallbackSpec == FallbackInit /\ [][FallbackNext]_vars

\* the text is the whole text of one of the objects
ValidJson == \E v \in Objects : response_text = Render(v)

\* the dict that Python holds for an object: a repeated key has its last value
Loaded(v) == Obj(DictUpdate(<<>>, v[2]))

\* the object whose text the generation returned
Answered == Loaded(CHOOSE v \in Objects : response_text = Render(v))

\* C25: on the LLM fallback of /robot/command, output that is not valid JSON
\* does not fail the request: the response carries exactly one action, of
\* kind error, whose params hold the raw text; valid JSON without an
\* "actions" key is wrapped as the single element of the actions list; in
\* both cases the response is marked as routed by the LLM.
C25_FallbackAnswer ==
    fpc = "done" =>
        /\ sent_json[1] = "obj"
        /\ Get(sent_json[2], "_routed_by") = S("llm")
        /\ IF ValidJson
           THEN ~Has(Answered[2], "actions")
                => Get(sent_json[2], "actions") = Arr(<<Answered>>)
           ELSE Get(sent_json[2], "actions") =
                    Arr(<< Obj(<< <<"action", S("error")>>,
                                  <<"params",
                                    Obj(<< <<"raw", Text(response_text)>> >>)>>
                               >>) >>)

\* a cut object has been answered with the error action, and its text kept in
\* the history
C25_Witness ==
    /\ fpc = "done"
    /\ ~ValidJson
    /\ Len(response_text) > 3
    /\ Get(Get(sent_json[2], "actions")[2][1][2], "action") = S("error")
    /\ Len(history) = 2

====
